---------------------------- MODULE Spec2Model ----------------------------
(***************************************************************************)
(* Model of the reconciliation engine of src/lib/scripts/concilia.js:      *)
(* the value, date and text normalizers, the two variants of               *)
(* cruzarPagamentos (the exhaustive score-ranked one and the simple        *)
(* first-come one) and the summary built by realizarConciliacao.           *)
(* Further down: the two sheet extractors, the route handlers             *)
(* POST /api/processar-planilha and POST /api/auth/login, the AuthGuard   *)
(* component, compararDatas and contarPalavrasComuns on their own, and     *)
(* the conciliation page with its two upload widgets.                      *)
(*                                                                         *)
(* Text is a sequence of one-character strings, so that trimming,          *)
(* splitting, folding and parsing are computed and not assumed.  Amounts   *)
(* are integers in hundredths (10000 is 100.00).  A calendar date is a     *)
(* record [ano, mes, dia] with mes in 0..11 as in a JavaScript Date.       *)
(***************************************************************************)
EXTENDS Integers, Sequences, FiniteSets, TLC

VARIABLES
    pagamentosExtrato,         \* input: statement records, in row order
    pagamentosRelatorio,       \* input: report records, in row order
    variante,                  \* "exaustiva" or "simples"
    pc,                        \* position inside cruzarPagamentos / realizarConciliacao
    todosMatchesPossiveis,     \* the candidate list (sorted once enumerated)
    indice,                    \* position of the forEach that is being walked
    extratoUsados,             \* keys of claimed statement records
    relatorioUsados,           \* keys of claimed report records
    extratoEncontrados,        \* simple variant: keys of claimed statement records
    encontrados,               \* resultados.encontrados
    naoEncontradosNoExtrato,   \* resultados.naoEncontradosNoExtrato
    naoEncontradosNoRelatorio, \* resultados.naoEncontradosNoRelatorio
    resumo,                    \* relatorio.resumo of realizarConciliacao
    execucao,                  \* number of the current run on these inputs
    anterior,                  \* what the previous run on these inputs returned
    valorEntrada,              \* argument of normalizarValorAbsoluto
    valorSaida,                \* its result
    dataEntrada,               \* argument of normalizarData
    dataEscrita,               \* the day, month and year its text was written from
    dataSaida,                 \* its result
    dados,                     \* rows of the sheet handed to an extractor
    origem,                    \* which extractor runs: "extrato" or "relatorio"
    posicao,                   \* index of the forEach over dados (rows done)
    pagamentosSaida,           \* pagamentos of the extractor: records pushed so far
    pedidos,                   \* POST /api/processar-planilha: the requests in flight
    tmp,                       \* files of os.tmpdir(): path and the request that wrote it
    relogio,                   \* Date.now()
    corpo,                     \* POST /api/auth/login: the body of the request
    pinAuth,                   \* process.env.PIN_AUTH
    respostaLogin,             \* the response of the login route
    historico,                 \* AuthGuard: history since the page load, its last entry is pathname
    autenticado,               \* sessionStorage holds authenticated = "true"
    isChecking,                \* the state isChecking of AuthGuard
    efeitoPendente,            \* the effect of AuthGuard is due for the last render
    renderizado,               \* what AuthGuard shows: "verificando" or the children of a route
    destino,                   \* the route of a router.push that has not completed
    dataA,                     \* first argument of compararDatas
    dataB,                     \* second argument of compararDatas
    iguais,                    \* its result
    descricaoA,                \* first argument of contarPalavrasComuns
    descricaoB,                \* second argument of contarPalavrasComuns
    comuns,                    \* its result, -1 before the call
    arquivoExtratoBancario,    \* ConciliacaoPage: the statement file, or null
    arquivoRelatorioFinanceiro,\* ConciliacaoPage: the report file, or null
    isProcessando,             \* ConciliacaoPage: a conciliation is under way
    arquivoSelecionado,        \* UploadXlsx: the file of each of the two widgets
    emVoo,                     \* the fetch of handleProcessarConciliacao is pending
    toast                      \* the last toast shown

varsCruzar == <<pagamentosExtrato, pagamentosRelatorio, variante, pc,
                todosMatchesPossiveis, indice, extratoUsados, relatorioUsados,
                extratoEncontrados, encontrados, naoEncontradosNoExtrato, naoEncontradosNoRelatorio,
                resumo, execucao, anterior>>
varsValor == <<valorEntrada, valorSaida>>
varsData == <<dataEntrada, dataEscrita, dataSaida>>
varsExtrair == <<dados, origem, posicao, pagamentosSaida>>
varsRota == <<pedidos, tmp, relogio>>
varsLogin == <<corpo, pinAuth, respostaLogin>>
varsGuarda == <<historico, autenticado, isChecking, efeitoPendente, renderizado, destino>>
varsComparar == <<dataA, dataB, iguais>>
varsPalavras == <<descricaoA, descricaoB, comuns>>
varsPagina == <<arquivoExtratoBancario, arquivoRelatorioFinanceiro, isProcessando,
                arquivoSelecionado, emVoo, toast>>
varsTardios == <<varsComparar, varsPalavras, varsPagina>>
varsOutros == <<varsRota, varsLogin, varsGuarda, varsTardios>>
varsForaDeCruzar == <<varsValor, varsData, varsExtrair, varsOutros>>
vars == <<varsCruzar, varsValor, varsData, varsExtrair, varsOutros>>

\* JavaScript values are tagged records, so that null, NaN, numbers, dates
\* and text can be compared with each other
null == [tipo |-> "null"]
undefined == [tipo |-> "undefined"]
NaN == [tipo |-> "NaN"]
pendente == [tipo |-> "pendente"]

(***************************************************************************)
(* Bounds of the model.                                                    *)
(***************************************************************************)
MaxExtrato == 3      \* statement rows that carry a payment, per run
MaxRelatorio == 3    \* report rows that carry a payment, per run
MaxExecucoes == 2    \* runs of the matcher on the same input lists
MaxTexto == 4        \* characters of an amount cell
MaxDia == 32         \* largest day number written in a date cell
MaxMes == 13         \* largest month number written in a date cell
MaxLinhas == 2       \* rows of a sheet handed to an extractor
MaxRelogio == 1      \* milliseconds Date.now() advances while requests are served
MaxPin == 5          \* characters of a pin sent to the login route
MaxHistorico == 3    \* entries the history of the tab keeps
MaxDescricao == 4    \* characters of a description handed to contarPalavrasComuns

(***************************************************************************)
(* Text helpers.                                                           *)
(***************************************************************************)
Espacos == {" ", "\t"}
Digitos == <<"0", "1", "2", "3", "4", "5", "6", "7", "8", "9">>

EhDigito(c) == \E k \in 1..10 : Digitos[k] = c
ValorDigito(c) == (CHOOSE k \in 1..10 : Digitos[k] = c) - 1

RECURSIVE Decimal(_)
\* The decimal digits of a natural number
Decimal(n) ==
    IF n < 10 THEN <<Digitos[n + 1]>>
    ELSE Decimal(n \div 10) \o <<Digitos[(n % 10) + 1]>>

RECURSIVE NumeroDe(_, _)
\* The number written by the first k characters of s, all digits
NumeroDe(s, k) ==
    IF k = 0 THEN 0 ELSE 10 * NumeroDe(s, k - 1) + ValorDigito(s[k])

Min(S) == CHOOSE x \in S : \A y \in S : x <= y
Max(S) == CHOOSE x \in S : \A y \in S : x >= y

\* String.prototype.trim: from the first to the last character that is no space
Trim(s) ==
    LET n == Len(s)
        Fora(i) == s[i] \notin Espacos
    IN  IF \A i \in 1..n : ~Fora(i) THEN <<>>
        ELSE SubSeq(s,
                    CHOOSE i \in 1..n : Fora(i) /\ \A j \in 1..(i - 1) : ~Fora(j),
                    CHOOSE i \in 1..n : Fora(i) /\ \A j \in (i + 1)..n : ~Fora(j))

\* NFD decomposition followed by removal of the combining marks, per character
SemAcento(c) ==
    CASE c \in {"á", "ã", "â"} -> "a"
      [] c \in {"Á", "Ã"} -> "A"
      [] c = "é" -> "e"
      [] c = "ç" -> "c"
      [] OTHER -> c

removerAcentos(texto) ==
    IF texto = <<>> THEN <<>>
    ELSE <<>> \o [i \in 1..Len(texto) |-> SemAcento(texto[i])]

Minuscula(c) ==
    CASE c = "A" -> "a"
      [] c = "B" -> "b"
      [] c = "C" -> "c"
      [] c = "X" -> "x"
      [] c = "L" -> "l"
      [] c = "S" -> "s"
      [] c = "P" -> "p"
      [] c = "J" -> "j"
      [] OTHER -> c

toLowerCase(s) == <<>> \o [i \in 1..Len(s) |-> Minuscula(s[i])]

\* The positions where a word of s starts: split(/\s+/) without the empty
\* pieces; n is the length of s
Inicios(s, n) ==
    {i \in 1..n : s[i] \notin Espacos /\ (i = 1 \/ s[i - 1] \in Espacos)}

RECURSIVE FimDaPalavra(_, _, _)
\* The last position of the word of s that holds position j
FimDaPalavra(s, n, j) ==
    IF j = n \/ s[j + 1] \in Espacos THEN j ELSE FimDaPalavra(s, n, j + 1)

\* The word of s that starts at position i
PalavraEm(s, n, i) ==
    LET fim == FimDaPalavra(s, n, i)
    IN  [k \in 1..(fim - i + 1) |-> s[i + k - 1]]

\* Mutant of ContarComuns: the distinct words the two texts share
ContarComunsDistintas(palavras1, palavras2) ==
    LET n1 == Len(palavras1)
        n2 == Len(palavras2)
    IN  Cardinality({PalavraEm(palavras1, n1, i) : i \in Inicios(palavras1, n1)}
                    \cap {PalavraEm(palavras2, n2, j) : j \in Inicios(palavras2, n2)})

\* How many words of palavras1 are among the words of palavras2
ContarComuns(palavras1, palavras2) ==
    LET n1 == Len(palavras1)
        n2 == Len(palavras2)
        palavras2Set == {PalavraEm(palavras2, n2, j) : j \in Inicios(palavras2, n2)}
    IN  Cardinality({i \in Inicios(palavras1, n1) :
                        PalavraEm(palavras1, n1, i) \in palavras2Set})

contarPalavrasComuns(desc1, desc2) ==
    IF desc1 = <<>> \/ desc2 = <<>> THEN 0
    ELSE ContarComuns(toLowerCase(removerAcentos(desc1)),
                      toLowerCase(removerAcentos(desc2)))

(***************************************************************************)
(* Dates.                                                                  *)
(***************************************************************************)
\* A valid Date object, read through getFullYear, getMonth and getDate
Data(ano, mes, dia) == [tipo |-> "data", ano |-> ano, mes |-> mes, dia |-> dia]

Bissexto(ano) == (ano % 4 = 0 /\ ano % 100 # 0) \/ ano % 400 = 0

\* mes in 0..11
DiasNoMes(ano, mes) ==
    CASE mes = 1 -> IF Bissexto(ano) THEN 29 ELSE 28
      [] mes \in {3, 5, 8, 10} -> 30
      [] OTHER -> 31

\* new Date(ano, mes, dia) for mes in 0..11 and dia in 1..31: a day past the
\* end of the month rolls over into the next month
NovaData(ano, mes, dia) ==
    IF dia <= DiasNoMes(ano, mes) THEN Data(ano, mes, dia)
    ELSE IF mes = 11
         THEN Data(ano + 1, 0, dia - DiasNoMes(ano, mes))
         ELSE Data(ano, mes + 1, dia - DiasNoMes(ano, mes))


(***************************************************************************)
(* normalizarValorAbsoluto.  A number is mantissa / 10^casas, kept without *)
(* trailing zeros in the fraction so that equal numbers are equal records. *)
(***************************************************************************)
Texto(chars) == [tipo |-> "texto", chars |-> chars]

Numero(negativo, mantissa, casas) ==
    [tipo |-> "numero", negativo |-> negativo, mantissa |-> mantissa, casas |-> casas]

RECURSIVE Reduzido(_, _, _)
Reduzido(negativo, mantissa, casas) ==
    IF casas > 0 /\ mantissa % 10 = 0
    THEN Reduzido(negativo, mantissa \div 10, casas - 1)
    ELSE Numero(negativo, mantissa, casas)

\* !valor: null, the empty string, 0, -0 and NaN are falsy
Falso(valor) ==
    \/ valor.tipo \in {"null", "NaN"}
    \/ valor.tipo = "texto" /\ valor.chars = <<>>
    \/ valor.tipo = "numero" /\ valor.mantissa = 0

RECURSIVE Potencia10(_)
Potencia10(k) == IF k = 0 THEN 1 ELSE 10 * Potencia10(k - 1)

\* The last k decimal digits of n, with leading zeros
UltimosDigitos(n, k) ==
    [i \in 1..k |-> Digitos[((n \div Potencia10(k - i)) % 10) + 1]]

\* String(valor) of a text or of a number that needs no exponent
String(valor) ==
    IF valor.tipo = "texto" THEN valor.chars
    ELSE (IF valor.negativo /\ valor.mantissa # 0 THEN <<"-">> ELSE <<>>)
         \o Decimal(valor.mantissa \div Potencia10(valor.casas))
         \o (IF valor.casas = 0 THEN <<>>
             ELSE <<".">> \o UltimosDigitos(valor.mantissa, valor.casas))

\* s.replace(/[...]/g, ''): every character of the class removed
Remover(s, classe) ==
    LET Fica(c) == c \notin classe
    IN  SelectSeq(s, Fica)

\* s.replace(/^-/, ''): one leading minus sign removed
RemoverSinal(s) == IF s # <<>> /\ s[1] = "-" THEN Tail(s) ELSE s

\* s.includes(c)
Inclui(s, c) == \E i \in 1..Len(s) : s[i] = c

\* s.replace(de, para) with a string pattern: the first occurrence only
TrocarPrimeira(s, de, para) ==
    IF ~Inclui(s, de) THEN s
    ELSE LET i == CHOOSE k \in 1..Len(s) :
                      s[k] = de /\ \A j \in 1..(k - 1) : s[j] # de
         IN  [k \in 1..Len(s) |-> IF k = i THEN para ELSE s[k]]

RECURSIVE Split(_, _)
\* s.split(separator): the pieces between the separators, empty ones kept
Split(s, separadores) ==
    IF \A i \in 1..Len(s) : s[i] \notin separadores THEN <<s>>
    ELSE LET i == CHOOSE k \in 1..Len(s) :
                      /\ s[k] \in separadores
                      /\ \A j \in 1..(k - 1) : s[j] \notin separadores
         IN  <<SubSeq(s, 1, i - 1)>> \o Split(SubSeq(s, i + 1, Len(s)), separadores)

RECURSIVE DigitosDesde(_, _)
\* The length of the run of digits of s that starts at position i
DigitosDesde(s, i) ==
    IF i <= Len(s) /\ EhDigito(s[i]) THEN 1 + DigitosDesde(s, i + 1) ELSE 0

\* parseFloat of a text without white space and without exponent: the
\* longest prefix sign? digits* (. digits*)? that holds a digit, else NaN
parseFloat(s) ==
    LET sinal == IF s # <<>> /\ s[1] \in {"-", "+"} THEN 1 ELSE 0
        inteiros == DigitosDesde(s, sinal + 1)
        ponto == sinal + inteiros + 1
        decimais == IF ponto <= Len(s) /\ s[ponto] = "."
                    THEN DigitosDesde(s, ponto + 1) ELSE 0
        algarismos == SubSeq(s, sinal + 1, sinal + inteiros)
                      \o SubSeq(s, ponto + 1, ponto + decimais)
    IN  IF inteiros + decimais = 0 THEN NaN
        ELSE Reduzido(sinal = 1 /\ s[1] = "-",
                      NumeroDe(algarismos, inteiros + decimais), decimais)

\* Mutant of Abs: the sign is kept
SemAbs(numero) == numero

\* Math.abs
Abs(numero) == Numero(FALSE, numero.mantissa, numero.casas)

\* Mutant of normalizarValorAbsoluto: the sign is read, not discarded
normalizarValorComSinal(valor) ==
    IF Falso(valor) THEN null
    ELSE LET semSimbolos == Remover(Trim(String(valor)), {"R", "$"} \cup Espacos)
             temVirgula == Inclui(semSimbolos, ",")
             temPonto == Inclui(semSimbolos, ".")
             partes == Split(semSimbolos, {"."})
             valorStr ==
                 IF temVirgula /\ temPonto
                 THEN TrocarPrimeira(Remover(semSimbolos, {"."}), ",", ".")
                 ELSE IF temVirgula
                 THEN TrocarPrimeira(semSimbolos, ",", ".")
                 ELSE IF temPonto
                 THEN IF Len(partes) = 2 /\ Len(partes[2]) <= 2
                      THEN semSimbolos
                      ELSE Remover(semSimbolos, {"."})
                 ELSE semSimbolos
             numero == parseFloat(valorStr)
         IN  IF numero = NaN THEN null ELSE numero

normalizarValorAbsoluto(valor) ==
    IF Falso(valor) THEN null
    ELSE LET aparado == Trim(String(valor))
             semSimbolos == Remover(aparado, {"R", "$"} \cup Espacos)
             semSinal == RemoverSinal(semSimbolos)
             temVirgula == Inclui(semSinal, ",")
             temPonto == Inclui(semSinal, ".")
             partes == Split(semSinal, {"."})
             valorStr ==
                 IF temVirgula /\ temPonto
                 THEN TrocarPrimeira(Remover(semSinal, {"."}), ",", ".")
                 ELSE IF temVirgula
                 THEN TrocarPrimeira(semSinal, ",", ".")
                 ELSE IF temPonto
                 THEN IF Len(partes) = 2 /\ Len(partes[2]) <= 2
                      THEN semSinal
                      ELSE Remover(semSinal, {"."})
                 ELSE semSinal
             numero == parseFloat(valorStr)
         IN  IF numero = NaN THEN null ELSE Abs(numero)

(***************************************************************************)
(* normalizarData.                                                         *)
(***************************************************************************)
\* A Date object whose time value is NaN
DataInvalida == [tipo |-> "data_invalida"]

\* parseInt(s, 10): white space skipped, then sign? digits+, else NaN
parseInt(s) ==
    LET brancos == IF \A i \in 1..Len(s) : s[i] \in Espacos THEN Len(s)
                   ELSE (CHOOSE i \in 1..Len(s) :
                             s[i] \notin Espacos /\ \A j \in 1..(i - 1) : s[j] \in Espacos) - 1
        sinal == IF brancos < Len(s) /\ s[brancos + 1] \in {"-", "+"} THEN 1 ELSE 0
        inicio == brancos + sinal + 1
        quantos == DigitosDesde(s, inicio)
    IN  IF quantos = 0 THEN NaN
        ELSE Numero(sinal = 1 /\ s[brancos + 1] = "-",
                    NumeroDe(SubSeq(s, inicio, inicio + quantos - 1), quantos), 0)

\* A number as an integer
Inteiro(numero) == IF numero.negativo THEN 0 - numero.mantissa ELSE numero.mantissa

\* Mutant of IdaEVolta: the Date object is not read back
SemIdaEVolta(dataObj, dia, mes, ano) == TRUE

\* getDate() === dia && getMonth() === mes && getFullYear() === ano
IdaEVolta(dataObj, dia, mes, ano) ==
    dataObj.dia = dia /\ dataObj.mes = mes /\ dataObj.ano = ano

\* The three-part branch of normalizarData: the date, or null to fall through
DataDasPartes(partes) ==
    LET dia == parseInt(partes[1])
        mesOriginal == parseInt(partes[2])
        ano == parseInt(partes[3])
    IN  IF /\ dia # NaN /\ mesOriginal # NaN /\ ano # NaN
           /\ Inteiro(dia) > 0 /\ Inteiro(dia) <= 31
           /\ Inteiro(mesOriginal) >= 1 /\ Inteiro(mesOriginal) <= 12
           /\ Inteiro(ano) > 1900 /\ Inteiro(ano) < 2100
           /\ IdaEVolta(NovaData(Inteiro(ano), Inteiro(mesOriginal) - 1, Inteiro(dia)),
                        Inteiro(dia), Inteiro(mesOriginal) - 1, Inteiro(ano))
        THEN NovaData(Inteiro(ano), Inteiro(mesOriginal) - 1, Inteiro(dia))
        ELSE null

EhDia(n) == n >= 1 /\ n <= 31
EhMes(n) == n >= 1 /\ n <= 12

\* new Date(dataStr) of the engine that runs the script, for the empty text
\* and for three numbers of one or two, one or two, and any number of digits
\* separated by "/" or "-" (no ISO text): the numbers are month/day/year,
\* or year/month/day when the first is no day of a month; a year below 50
\* is of this century and one below 100 of the last; a month outside 1..12
\* or a day outside 1..31 gives an invalid Date; a day past the end of the
\* month rolls over
DataDoTexto(dataStr) ==
    LET partes == Split(dataStr, {"/", "-"})
        SoDigitos(s) == s # <<>> /\ \A i \in 1..Len(s) : EhDigito(s[i])
        n1 == NumeroDe(partes[1], Len(partes[1]))
        n2 == NumeroDe(partes[2], Len(partes[2]))
        n3 == NumeroDe(partes[3], Len(partes[3]))
        anoLido == IF EhDia(n1) THEN n3 ELSE n1
        mesLido == IF EhDia(n1) THEN n1 ELSE n2
        diaLido == IF EhDia(n1) THEN n2 ELSE n3
        ano == IF anoLido <= 49 THEN anoLido + 2000
               ELSE IF anoLido <= 99 THEN anoLido + 1900 ELSE anoLido
    IN  CASE dataStr = <<>> -> DataInvalida
          [] /\ Len(partes) = 3
             /\ \A k \in 1..3 : SoDigitos(partes[k])
             /\ Len(partes[1]) <= 2
             /\ Len(partes[2]) <= 2 ->
                 IF EhMes(mesLido) /\ EhDia(diaLido)
                 THEN NovaData(ano, mesLido - 1, diaLido)
                 ELSE DataInvalida

normalizarData(data) ==
    IF Falso(data) THEN null
    ELSE IF data.tipo = "data" THEN data
    ELSE IF data.tipo = "data_invalida" THEN null
    ELSE LET dataStr == Trim(String(data))
             partes == Split(dataStr, {"/", "-"})
             dataObj == IF Len(partes) = 3 THEN DataDasPartes(partes) ELSE null
             dataParsed == DataDoTexto(dataStr)
         IN  IF dataObj # null THEN dataObj
             ELSE IF dataParsed # DataInvalida THEN dataParsed
             ELSE null

\* Two normalized dates compared as instants
MesmoInstante(d1, d2) ==
    IF d1 = null \/ d2 = null THEN FALSE ELSE d1 = d2

\* Mutant of compararDatas: the two Date objects are compared as instants
compararInstantes(data1, data2) ==
    IF Falso(data1) \/ Falso(data2) THEN FALSE
    ELSE MesmoInstante(normalizarData(data1), normalizarData(data2))

\* Lines 127-135: both dates were normalized, and getDate, getMonth and
\* getFullYear agree
MesmoDia(d1, d2) ==
    IF d1 = null \/ d2 = null THEN FALSE
    ELSE /\ d1.dia = d2.dia
         /\ d1.mes = d2.mes
         /\ d1.ano = d2.ano

\* Lines 121-136: the two values normalized and compared by calendar day;
\* a Date object is handed back unchanged by normalizarData
compararDatas(data1, data2) ==
    IF Falso(data1) \/ Falso(data2) THEN FALSE
    ELSE MesmoDia(normalizarData(data1), normalizarData(data2))

(***************************************************************************)
(* Sequence helpers.                                                       *)
(***************************************************************************)
\* The k-th smallest element of a finite set of integers
Nth(S, k) == CHOOSE x \in S : Cardinality({y \in S : y < x}) = k - 1

\* Array.from(set).sort((a, b) => a - b)
Crescente(S) == [k \in 1..Cardinality(S) |-> Nth(S, k)]

\* Array.prototype.slice(0, n)
Slice(seq, n) == SubSeq(seq, 1, IF Len(seq) < n THEN Len(seq) ELSE n)

Imagem(seq) == {seq[i] : i \in 1..Len(seq)}

(***************************************************************************)
(* cruzarPagamentos, exhaustive variant: candidates and their order.       *)
(***************************************************************************)
PesoData == 10000

\* `${linhaOriginal}|${valor}|${descricao}`
Chave(pag) == <<pag.linhaOriginal, pag.valor, pag.descricao>>

\* Mutant of CandidatosPorValor: amounts within 1% are candidates too
CandidatosPorTolerancia(pagamentos, valor) ==
    LET Perto(pag) ==
            100 * (IF pag.valor >= valor THEN pag.valor - valor ELSE valor - pag.valor)
                <= valor
    IN  SelectSeq(pagamentos, Perto)

\* Mutant of CandidatosPorValor: every statement record is a candidate
TodosCandidatos(pagamentos, valor) == pagamentos

\* indicesPorValor.get(valor) || []
CandidatosPorValor(pagamentos, valor) ==
    LET MesmoValor(pag) == pag.valor = valor
    IN  SelectSeq(pagamentos, MesmoValor)

Score(dataMatch, palavrasComuns) ==
    (IF dataMatch THEN PesoData ELSE 0) + palavrasComuns

MatchPossivel(pagRelatorio, pagExtrato) ==
    LET palavrasComuns == contarPalavrasComuns(pagExtrato.descricao,
                                               pagRelatorio.descricao)
        dataMatch == compararDatas(pagExtrato.data, pagRelatorio.data)
    IN  [relatorio |-> pagRelatorio,
         extrato |-> pagExtrato,
         palavrasComuns |-> palavrasComuns,
         dataMatch |-> dataMatch,
         score |-> Score(dataMatch, palavrasComuns),
         chaveExtrato |-> Chave(pagExtrato),
         chaveRelatorio |-> Chave(pagRelatorio)]

RECURSIVE EnumerarMatches(_, _, _)
EnumerarMatches(extrato, relatorioLista, i) ==
    IF i > Len(relatorioLista) THEN <<>>
    ELSE LET candidatos == CandidatosPorValor(extrato, relatorioLista[i].valor)
         IN  [k \in 1..Len(candidatos) |->
                 MatchPossivel(relatorioLista[i], candidatos[k])]
             \o EnumerarMatches(extrato, relatorioLista, i + 1)

\* Mutant of CompararMatches: the lower score first
CompararMatchesCrescente(a, b) ==
    IF b.score # a.score THEN a.score - b.score
    ELSE a.relatorio.linhaOriginal - b.relatorio.linhaOriginal

\* Mutant of CompararMatches: among equal scores the higher row first
CompararMatchesEmpateInvertido(a, b) ==
    IF b.score # a.score THEN b.score - a.score
    ELSE b.relatorio.linhaOriginal - a.relatorio.linhaOriginal

\* The comparator handed to sort: negative when a goes before b
CompararMatches(a, b) ==
    IF b.score # a.score THEN b.score - a.score
    ELSE a.relatorio.linhaOriginal - b.relatorio.linhaOriginal

\* Mutant of Ordenar: the candidates stay in the order they were pushed
SemOrdenar(seq) == seq

\* Array.prototype.sort, which is stable: equal elements keep their order
Ordenar(seq) ==
    LET Antes(i, j) ==
            \/ CompararMatches(seq[i], seq[j]) < 0
            \/ (CompararMatches(seq[i], seq[j]) = 0 /\ i < j)
        Posicao(i) == 1 + Cardinality({j \in 1..Len(seq) : j # i /\ Antes(j, i)})
    IN  [k \in 1..Len(seq) |-> seq[CHOOSE i \in 1..Len(seq) : Posicao(i) = k]]

Metodo(dataMatch, palavrasComuns) ==
    IF dataMatch
    THEN (IF palavrasComuns > 0 THEN "valor_data_descricao" ELSE "valor_data")
    ELSE (IF palavrasComuns > 0 THEN "valor_descricao" ELSE "valor_apenas")

\* Mutant of NovoSet: the set of the previous call is used again
SetDeixado(deixado) == deixado

\* new Set() of lines 403-404, whatever a previous call left behind
NovoSet(deixado) == {}

(***************************************************************************)
(* Number formatting.                                                      *)
(***************************************************************************)
\* Mutant of PercentualFixo: the ratio without the factor 100
RazaoFixa(a, b) ==
    LET centesimos == (2 * a * 100 + b) \div (2 * b)
    IN  Decimal(centesimos \div 100) \o <<".">>
        \o <<Digitos[((centesimos % 100) \div 10) + 1],
             Digitos[(centesimos % 10) + 1]>> \o <<"%">>

\* ((a / b) * 100).toFixed(2) + '%' for integers a >= 0 and b > 0: the
\* hundredths nearest to 100a/b, a tie going to the larger
PercentualFixo(a, b) ==
    LET centesimos == (2 * a * 10000 + b) \div (2 * b)
    IN  Decimal(centesimos \div 100) \o <<".">>
        \o <<Digitos[((centesimos % 100) \div 10) + 1],
             Digitos[(centesimos % 10) + 1]>> \o <<"%">>

(***************************************************************************)
(* cruzarPagamentos, exhaustive variant: the unmatched lists.              *)
(***************************************************************************)
ValoresDe(pagamentos) == {pagamentos[i].valor : i \in 1..Len(pagamentos)}

\* The amounts of the other side within 1% of valor, in ascending order of
\* amount (diff <= valor * 0.01 and diff > 0, amounts being hundredths)
ValoresProximos(valor, outrosValores) ==
    LET todosValores == Crescente(outrosValores)
        Diff(val) == IF val >= valor THEN val - valor ELSE valor - val
        Proximo(val) == 100 * Diff(val) <= valor /\ Diff(val) > 0
        proximos == SelectSeq(todosValores, Proximo)
    IN  [k \in 1..Len(proximos) |->
            [valor |-> proximos[k],
             diferenca |-> Diff(proximos[k]),
             diferencaPercentual |-> PercentualFixo(Diff(proximos[k]), valor)]]

\* Mutant of FonteDoSpread: Object.assign(pag, {motivo: ...}) in place of the
\* spread writes the new field into the input record
FonteAtribuida(pag) ==
    [linhaOriginal |-> pag.linhaOriginal, valor |-> pag.valor,
     descricao |-> pag.descricao, data |-> pag.data, motivo |-> "atribuido"]

\* The input record after { ...pag, motivo, detalhes, debug } was built from
\* it: a spread reads its source and writes a new object
FonteDoSpread(pag) == pag

\* The entry pushed for a report record that no accepted match holds
EntradaNaoEncontradoNoExtrato(pagRelatorio, extrato, usados) ==
    LET candidatos == CandidatosPorValor(extrato, pagRelatorio.valor)
    IN  IF Len(candidatos) = 0
        THEN [linhaOriginal |-> pagRelatorio.linhaOriginal,
              valor |-> pagRelatorio.valor,
              descricao |-> pagRelatorio.descricao,
              data |-> pagRelatorio.data,
              motivo |-> "valor_nao_encontrado",
              debug |-> [valorProcurado |-> pagRelatorio.valor,
                         valoresProximos |->
                             Slice(ValoresProximos(pagRelatorio.valor,
                                                   ValoresDe(extrato)), 5)]]
        ELSE [linhaOriginal |-> pagRelatorio.linhaOriginal,
              valor |-> pagRelatorio.valor,
              descricao |-> pagRelatorio.descricao,
              data |-> pagRelatorio.data,
              motivo |-> "candidatos_ja_usados",
              debug |-> [valorProcurado |-> pagRelatorio.valor,
                         candidatosEncontrados |-> Len(candidatos),
                         candidatos |->
                             [k \in 1..Len(candidatos) |->
                                 [linha |-> candidatos[k].linhaOriginal,
                                  descricao |-> candidatos[k].descricao,
                                  jaFoiUsado |-> Chave(candidatos[k]) \in usados,
                                  palavrasComuns |->
                                      contarPalavrasComuns(candidatos[k].descricao,
                                                           pagRelatorio.descricao),
                                  dataMatch |->
                                      compararDatas(candidatos[k].data,
                                                    pagRelatorio.data)]]]]

\* Mutant of RelatoriosNaoEncontrados: only the records whose amount the
\* statement lacks are listed
RelatoriosSoSemValor(extrato, relatorioLista, usadosRelatorio, usadosExtrato) ==
    LET Livre(pag) ==
            /\ Chave(pag) \notin usadosRelatorio
            /\ Len(CandidatosPorValor(extrato, pag.valor)) = 0
        livres == SelectSeq(relatorioLista, Livre)
    IN  [k \in 1..Len(livres) |->
            EntradaNaoEncontradoNoExtrato(livres[k], extrato, usadosExtrato)]

\* Lines 430-512: the report records whose key was not claimed, in order
RelatoriosNaoEncontrados(extrato, relatorioLista, usadosRelatorio, usadosExtrato) ==
    LET Livre(pag) == Chave(pag) \notin usadosRelatorio
        livres == SelectSeq(relatorioLista, Livre)
    IN  [k \in 1..Len(livres) |->
            EntradaNaoEncontradoNoExtrato(livres[k], extrato, usadosExtrato)]

\* pagExtrato.descricao && String(pagExtrato.descricao).trim().length > 0
DescricaoValida(descricao) == descricao # <<>> /\ Len(Trim(descricao)) > 0

EntradaNaoEncontradoNoRelatorio(pagExtrato, relatorioLista) ==
    [linhaOriginal |-> pagExtrato.linhaOriginal,
     valor |-> pagExtrato.valor,
     descricao |-> pagExtrato.descricao,
     data |-> pagExtrato.data,
     motivo |-> "ausente_no_relatorio",
     debug |-> [valorProcurado |-> pagExtrato.valor,
                valoresProximos |->
                    Slice(ValoresProximos(pagExtrato.valor,
                                          ValoresDe(relatorioLista)), 5)]]

\* Mutant of ExtratosNaoEncontrados: the claimed set is not consulted
ExtratosNaoEncontradosSemUsados(extrato, relatorioLista, usadosExtrato) ==
    LET Reportavel(pag) == DescricaoValida(pag.descricao)
        livres == SelectSeq(extrato, Reportavel)
    IN  [k \in 1..Len(livres) |->
            EntradaNaoEncontradoNoRelatorio(livres[k], relatorioLista)]

\* Lines 524-572: the statement records with a description whose key was
\* not claimed, in order; a record without a description is passed over
ExtratosNaoEncontrados(extrato, relatorioLista, usadosExtrato) ==
    LET Reportavel(pag) ==
            DescricaoValida(pag.descricao) /\ Chave(pag) \notin usadosExtrato
        livres == SelectSeq(extrato, Reportavel)
    IN  [k \in 1..Len(livres) |->
            EntradaNaoEncontradoNoRelatorio(livres[k], relatorioLista)]

(***************************************************************************)
(* cruzarPagamentos, simple first-come variant.                            *)
(***************************************************************************)
\* The simple variant's contarPalavrasComuns folds case only
contarPalavrasComunsSimples(desc1, desc2) ==
    IF desc1 = <<>> \/ desc2 = <<>> THEN 0
    ELSE ContarComuns(toLowerCase(desc1), toLowerCase(desc2))

RECURSIVE MelhorCandidatoComPalavra(_, _, _, _, _)
\* Mutant of MelhorCandidato: a candidate needs a shared word to be taken
MelhorCandidatoComPalavra(candidatos, k, pagRelatorio, usados, melhor) ==
    IF k > Len(candidatos) THEN melhor
    ELSE LET pagExtrato == candidatos[k]
             palavrasComuns == contarPalavrasComunsSimples(pagExtrato.descricao,
                                                           pagRelatorio.descricao)
         IN  IF /\ Chave(pagExtrato) \notin usados
                /\ palavrasComuns > melhor.score
                /\ palavrasComuns > 0
             THEN MelhorCandidatoComPalavra(candidatos, k + 1, pagRelatorio, usados,
                                            [match |-> pagExtrato,
                                             score |-> palavrasComuns])
             ELSE MelhorCandidatoComPalavra(candidatos, k + 1, pagRelatorio, usados,
                                            melhor)

RECURSIVE MelhorCandidato(_, _, _, _, _)
\* The forEach over candidatos: melhor is [match, score] so far, starting
\* from [null, -1]; a candidate replaces it only with strictly more words
MelhorCandidato(candidatos, k, pagRelatorio, usados, melhor) ==
    IF k > Len(candidatos) THEN melhor
    ELSE LET pagExtrato == candidatos[k]
             palavrasComuns == contarPalavrasComunsSimples(pagExtrato.descricao,
                                                           pagRelatorio.descricao)
         IN  IF Chave(pagExtrato) \notin usados /\ palavrasComuns > melhor.score
             THEN MelhorCandidato(candidatos, k + 1, pagRelatorio, usados,
                                  [match |-> pagExtrato, score |-> palavrasComuns])
             ELSE MelhorCandidato(candidatos, k + 1, pagRelatorio, usados, melhor)

EntradaSimples(pag, motivo) ==
    [linhaOriginal |-> pag.linhaOriginal,
     valor |-> pag.valor,
     descricao |-> pag.descricao,
     data |-> pag.data,
     motivo |-> motivo]

\* Lines 1272-1282: every statement record whose key was not claimed
ExtratosNaoEncontradosSimples(extrato, usados) ==
    LET Livre(pag) == Chave(pag) \notin usados
        livres == SelectSeq(extrato, Livre)
    IN  [k \in 1..Len(livres) |-> EntradaSimples(livres[k], "ausente_no_relatorio")]

(***************************************************************************)
(* realizarConciliacao: the summary.                                       *)
(***************************************************************************)
TaxaConciliacao(totalEncontrados, totalRelatorio) ==
    IF totalRelatorio > 0 THEN PercentualFixo(totalEncontrados, totalRelatorio)
    ELSE <<"0", "%">>

\* Mutant of Status: only the statement records left over are counted
StatusSoDoRelatorio(quantidadeNoExtrato, quantidadeNoRelatorio) ==
    IF quantidadeNoRelatorio = 0
    THEN "totalmente_conciliado"
    ELSE "divergencias_encontradas"

Status(quantidadeNoExtrato, quantidadeNoRelatorio) ==
    IF quantidadeNoExtrato = 0 /\ quantidadeNoRelatorio = 0
    THEN "totalmente_conciliado"
    ELSE "divergencias_encontradas"

Resumo(extrato, relatorioLista, achados, faltamNoExtrato, faltamNoRelatorio) ==
    [totalExtrato |-> Len(extrato),
     totalRelatorio |-> Len(relatorioLista),
     totalEncontrados |-> Len(achados),
     quantidadeNoExtrato |-> Len(faltamNoExtrato),
     quantidadeNoRelatorio |-> Len(faltamNoRelatorio),
     taxaConciliacao |-> TaxaConciliacao(Len(achados), Len(relatorioLista)),
     status |-> Status(Len(faltamNoExtrato), Len(faltamNoRelatorio))]

(***************************************************************************)
(* The inputs of a run.  A sheet is a fixed sequence of rows; the extractor*)
(* keeps some of them, in order, each with its row number as linhaOriginal.*)
(***************************************************************************)
D1 == Data(2024, 0, 5)
D2 == Data(2024, 0, 6)

Linha(valor, descricao, data) ==
    [valor |-> valor, descricao |-> descricao, data |-> data]

Registro(linhaOriginal, valor, descricao, data) ==
    [linhaOriginal |-> linhaOriginal, valor |-> valor,
     descricao |-> descricao, data |-> data]

FolhaExtrato ==
    <<Linha(10000, <<"a", " ", "c">>, null),
      Linha(10000, <<"a", " ", "b">>, null),
      Linha(10000, <<"x">>, D1),
      Linha(10000, <<>>, D2),
      Linha(10050, <<" ">>, D1),
      Linha(10000, <<"Á", " ", "b", " ", "a">>, D1),
      Linha(20000, <<"a">>, null)>>

FolhaRelatorio ==
    <<Linha(10000, <<"a", " ", "b", " ", "c">>, null),
      Linha(10000, <<"c">>, null),
      Linha(10000, <<"a", " ", "b">>, D1),
      Linha(10050, <<"a">>, D1),
      Linha(10000, <<>>, D2),
      Linha(30000, <<"c">>, D1),
      Linha(10000, <<"a">>, D2)>>

\* The payment records of the rows `linhas` of a sheet, in row order
Extrair(folha, linhas) ==
    [k \in 1..Cardinality(linhas) |->
        LET i == Nth(linhas, k)
        IN  Registro(i, folha[i].valor, folha[i].descricao, folha[i].data)]

LinhasAte(folha, max) ==
    {linhas \in SUBSET (1..Len(folha)) : Cardinality(linhas) <= max}

\* More words than PesoData, all "a"
MuitasPalavras ==
    [i \in 1..(2 * (PesoData + 1) - 1) |-> IF i % 2 = 1 THEN "a" ELSE " "]

\* A statement record without date sharing PesoData + 1 words with the
\* report record, and one with the report record's date and no shared word
CenarioPalavras ==
    <<<<Registro(1, 10000, MuitasPalavras, null),
        Registro(2, 10000, <<"x">>, D1)>>,
      <<Registro(1, 10000, <<"a">>, D1)>>>>

\* Five statement rows and five report rows, four pairs with the same
\* amount and date, one report row whose amount the statement lacks
CenarioOitenta ==
    <<[k \in 1..5 |-> Registro(k, k * 10000, <<"p">>, D1)],
      [k \in 1..5 |-> Registro(k, IF k = 5 THEN 60000 ELSE k * 10000, <<"p">>, D1)]>>

\* Six statement amounts within 1% of the only report amount, the nearest
\* of them the highest
CenarioProximos ==
    <<[k \in 1..6 |->
          Registro(k, IF k = 6 THEN 10010 ELSE 9940 + 10 * k, <<"p">>, D1)],
      <<Registro(1, 10000, <<"q">>, D1)>>>>

Inverter(seq) == [k \in 1..Len(seq) |-> seq[Len(seq) + 1 - k]]

\* Lists handed to cruzarPagamentos in the reverse of the row order: some
\* of the first three rows of each sheet, all of one amount
CenariosInvertidos ==
    LET Primeiras == {linhas \in SUBSET (1..3) : Cardinality(linhas) >= 1}
    IN  {<<Inverter(Extrair(FolhaExtrato, le)), Inverter(Extrair(FolhaRelatorio, lr))>> :
            le \in Primeiras, lr \in Primeiras}

Entradas ==
    {<<Extrair(FolhaExtrato, le), Extrair(FolhaRelatorio, lr)>> :
        le \in LinhasAte(FolhaExtrato, MaxExtrato),
        lr \in LinhasAte(FolhaRelatorio, MaxRelatorio)}
    \cup {CenarioPalavras, CenarioOitenta, CenarioProximos}
    \cup CenariosInvertidos

Variantes == {"exaustiva", "simples"}

Resultados ==
    [encontrados |-> encontrados,
     naoEncontradosNoExtrato |-> naoEncontradosNoExtrato,
     naoEncontradosNoRelatorio |-> naoEncontradosNoRelatorio]

(***************************************************************************)
(* The matcher as a state machine.                                         *)
(***************************************************************************)
ValorParado ==
    /\ valorEntrada = null
    /\ valorSaida = pendente

DataParada ==
    /\ dataEntrada = null
    /\ dataEscrita = null
    /\ dataSaida = pendente

ExtrairParado ==
    /\ dados = <<>>
    /\ origem = "nenhuma"
    /\ posicao = 0
    /\ pagamentosSaida = <<>>

RotaParada ==
    /\ pedidos = <<>>
    /\ tmp = {}
    /\ relogio = 0

LoginParado ==
    /\ corpo = null
    /\ pinAuth = undefined
    /\ respostaLogin = pendente

GuardaParada ==
    /\ historico = <<>>
    /\ autenticado = FALSE
    /\ isChecking = TRUE
    /\ efeitoPendente = FALSE
    /\ renderizado = "verificando"
    /\ destino = "nenhum"

CompararParado ==
    /\ dataA = null
    /\ dataB = null
    /\ iguais = pendente

PalavrasParado ==
    /\ descricaoA = <<>>
    /\ descricaoB = <<>>
    /\ comuns = -1

\* Lines 36-38 of ConciliacaoPage and line 58 of UploadXlsx: the useState
\* initial values
PaginaParada ==
    /\ arquivoExtratoBancario = null
    /\ arquivoRelatorioFinanceiro = null
    /\ isProcessando = FALSE
    /\ arquivoSelecionado = [w \in {"extrato", "relatorio"} |-> null]
    /\ emVoo = FALSE
    /\ toast = "nenhum"

TardiosParados ==
    /\ CompararParado
    /\ PalavrasParado
    /\ PaginaParada

OutrosServicosParados ==
    /\ RotaParada
    /\ LoginParado
    /\ GuardaParada
    /\ TardiosParados

OutrosParados ==
    /\ ValorParado
    /\ DataParada
    /\ ExtrairParado
    /\ OutrosServicosParados

Init ==
    /\ \E par \in Entradas :
          /\ pagamentosExtrato = par[1]
          /\ pagamentosRelatorio = par[2]
    /\ variante \in Variantes
    /\ pc = "inicio"
    /\ todosMatchesPossiveis = <<>>
    /\ indice = 1
    /\ extratoUsados = {}
    /\ relatorioUsados = {}
    /\ extratoEncontrados = {}
    /\ encontrados = <<>>
    /\ naoEncontradosNoExtrato = <<>>
    /\ naoEncontradosNoRelatorio = <<>>
    /\ resumo = pendente
    /\ execucao = 1
    /\ anterior = pendente
    /\ OutrosParados

\* Lines 336-405: fresh results, every candidate pair scored, the list
\* sorted, fresh claimed sets
EnumerarCandidatos ==
    /\ pc = "inicio"
    /\ variante = "exaustiva"
    /\ encontrados' = <<>>
    /\ naoEncontradosNoExtrato' = <<>>
    /\ naoEncontradosNoRelatorio' = <<>>
    /\ todosMatchesPossiveis' =
           Ordenar(EnumerarMatches(pagamentosExtrato, pagamentosRelatorio, 1))
    /\ extratoUsados' = NovoSet(extratoUsados)
    /\ relatorioUsados' = NovoSet(relatorioUsados)
    /\ indice' = 1
    /\ pc' = IF Len(todosMatchesPossiveis') = 0 THEN "relatorio" ELSE "aplicar"
    /\ UNCHANGED <<pagamentosExtrato, pagamentosRelatorio, variante,
                   extratoEncontrados, resumo, execucao, anterior>>
    /\ UNCHANGED varsForaDeCruzar

\* Mutant of Aceita: a candidate without a matching date or a shared word
\* is passed over
AceitaComScore(match, usadosExtrato, usadosRelatorio) ==
    /\ match.chaveExtrato \notin usadosExtrato
    /\ match.chaveRelatorio \notin usadosRelatorio
    /\ match.score > 0

\* Mutant of Aceita: only the statement side is looked up
AceitaSemOlharRelatorio(match, usadosExtrato, usadosRelatorio) ==
    match.chaveExtrato \notin usadosExtrato

\* Whether the walk accepts a candidate (line 409)
Aceita(match, usadosExtrato, usadosRelatorio) ==
    /\ match.chaveExtrato \notin usadosExtrato
    /\ match.chaveRelatorio \notin usadosRelatorio

\* Mutant of Marcar: the key is not added
NaoMarcar(usados, chave) == usados

\* Lines 410-411: extratoUsados.add(...) and relatorioUsados.add(...)
Marcar(usados, chave) == usados \cup {chave}

\* Lines 407-424: one candidate of the sorted list
AplicarMatch ==
    /\ pc = "aplicar"
    /\ indice <= Len(todosMatchesPossiveis)
    /\ LET match == todosMatchesPossiveis[indice]
       IN  IF Aceita(match, extratoUsados, relatorioUsados)
           THEN /\ extratoUsados' = Marcar(extratoUsados, match.chaveExtrato)
                /\ relatorioUsados' = Marcar(relatorioUsados, match.chaveRelatorio)
                /\ encontrados' =
                       Append(encontrados,
                              [extrato |-> match.extrato,
                               relatorio |-> match.relatorio,
                               palavrasComuns |-> match.palavrasComuns,
                               dataMatch |-> match.dataMatch,
                               metodo |-> Metodo(match.dataMatch,
                                                 match.palavrasComuns)])
           ELSE UNCHANGED <<extratoUsados, relatorioUsados, encontrados>>
    /\ indice' = indice + 1
    /\ pc' = IF indice = Len(todosMatchesPossiveis) THEN "relatorio" ELSE "aplicar"
    /\ UNCHANGED <<pagamentosExtrato, pagamentosRelatorio, variante,
                   todosMatchesPossiveis, extratoEncontrados,
                   naoEncontradosNoExtrato, naoEncontradosNoRelatorio,
                   resumo, execucao, anterior>>
    /\ UNCHANGED varsForaDeCruzar

\* Lines 428-512
NaoEncontradosRelatorio ==
    /\ pc = "relatorio"
    /\ naoEncontradosNoExtrato' =
           RelatoriosNaoEncontrados(pagamentosExtrato, pagamentosRelatorio,
                                    relatorioUsados, extratoUsados)
    /\ pagamentosRelatorio' =
           [i \in 1..Len(pagamentosRelatorio) |->
               IF Chave(pagamentosRelatorio[i]) \in relatorioUsados
               THEN pagamentosRelatorio[i]
               ELSE FonteDoSpread(pagamentosRelatorio[i])]
    /\ pc' = "extrato"
    /\ UNCHANGED <<pagamentosExtrato, variante,
                   todosMatchesPossiveis, indice, extratoUsados, relatorioUsados,
                   extratoEncontrados, encontrados, naoEncontradosNoRelatorio,
                   resumo, execucao, anterior>>
    /\ UNCHANGED varsForaDeCruzar

\* Lines 514-580
NaoEncontradosExtrato ==
    /\ pc = "extrato"
    /\ naoEncontradosNoRelatorio' =
           ExtratosNaoEncontrados(pagamentosExtrato, pagamentosRelatorio,
                                  extratoUsados)
    /\ pagamentosExtrato' =
           [i \in 1..Len(pagamentosExtrato) |->
               IF /\ DescricaoValida(pagamentosExtrato[i].descricao)
                  /\ Chave(pagamentosExtrato[i]) \notin extratoUsados
               THEN FonteDoSpread(pagamentosExtrato[i])
               ELSE pagamentosExtrato[i]]
    /\ pc' = "fim"
    /\ UNCHANGED <<pagamentosRelatorio, variante,
                   todosMatchesPossiveis, indice, extratoUsados, relatorioUsados,
                   extratoEncontrados, encontrados, naoEncontradosNoExtrato,
                   resumo, execucao, anterior>>
    /\ UNCHANGED varsForaDeCruzar

\* Lines 1191-1214 of the simple variant: fresh results and claimed set
SimplesIniciar ==
    /\ pc = "inicio"
    /\ variante = "simples"
    /\ encontrados' = <<>>
    /\ naoEncontradosNoExtrato' = <<>>
    /\ naoEncontradosNoRelatorio' = <<>>
    /\ extratoEncontrados' = NovoSet(extratoEncontrados)
    /\ indice' = 1
    /\ pc' = IF Len(pagamentosRelatorio) = 0 THEN "simplesExtrato" ELSE "simples"
    /\ UNCHANGED <<pagamentosExtrato, pagamentosRelatorio, variante,
                   todosMatchesPossiveis, extratoUsados, relatorioUsados,
                   resumo, execucao, anterior>>
    /\ UNCHANGED varsForaDeCruzar

\* Lines 1217-1269: one report record
SimplesProcessar ==
    /\ pc = "simples"
    /\ indice <= Len(pagamentosRelatorio)
    /\ LET pagRelatorio == pagamentosRelatorio[indice]
           candidatos == CandidatosPorValor(pagamentosExtrato, pagRelatorio.valor)
           melhor == MelhorCandidato(candidatos, 1, pagRelatorio, extratoEncontrados,
                                     [match |-> null, score |-> -1])
       IN  IF Len(candidatos) = 0
           THEN /\ naoEncontradosNoExtrato' =
                       Append(naoEncontradosNoExtrato,
                              EntradaSimples(pagRelatorio, "ausente_no_extrato"))
                /\ UNCHANGED <<encontrados, extratoEncontrados>>
           ELSE IF melhor.match # null /\ melhor.score >= 0
           THEN /\ extratoEncontrados' =
                       extratoEncontrados \cup {Chave(melhor.match)}
                /\ encontrados' =
                       Append(encontrados,
                              [extrato |-> melhor.match,
                               relatorio |-> pagRelatorio,
                               palavrasComuns |-> melhor.score,
                               metodo |-> IF melhor.score > 0
                                          THEN "valor_descricao"
                                          ELSE "valor_apenas"])
                /\ UNCHANGED naoEncontradosNoExtrato
           ELSE /\ naoEncontradosNoExtrato' =
                       Append(naoEncontradosNoExtrato,
                              EntradaSimples(pagRelatorio, "ausente_no_extrato"))
                /\ UNCHANGED <<encontrados, extratoEncontrados>>
    /\ indice' = indice + 1
    /\ pc' = IF indice = Len(pagamentosRelatorio) THEN "simplesExtrato" ELSE "simples"
    /\ UNCHANGED <<pagamentosExtrato, pagamentosRelatorio, variante,
                   todosMatchesPossiveis, extratoUsados, relatorioUsados,
                   naoEncontradosNoRelatorio, resumo, execucao, anterior>>
    /\ UNCHANGED varsForaDeCruzar

\* Lines 1271-1290
SimplesNaoEncontrados ==
    /\ pc = "simplesExtrato"
    /\ naoEncontradosNoRelatorio' =
           ExtratosNaoEncontradosSimples(pagamentosExtrato, extratoEncontrados)
    /\ pc' = "fim"
    /\ UNCHANGED <<pagamentosExtrato, pagamentosRelatorio, variante,
                   todosMatchesPossiveis, indice, extratoUsados, relatorioUsados,
                   extratoEncontrados, encontrados, naoEncontradosNoExtrato,
                   resumo, execucao, anterior>>
    /\ UNCHANGED varsForaDeCruzar

\* realizarConciliacao after cruzarPagamentos has returned (lines 751-803)
GerarRelatorio ==
    /\ pc = "fim"
    /\ resumo' = Resumo(pagamentosExtrato, pagamentosRelatorio, encontrados,
                        naoEncontradosNoExtrato, naoEncontradosNoRelatorio)
    /\ pc' = "relatado"
    /\ UNCHANGED <<pagamentosExtrato, pagamentosRelatorio, variante,
                   todosMatchesPossiveis, indice, extratoUsados, relatorioUsados,
                   extratoEncontrados, encontrados, naoEncontradosNoExtrato,
                   naoEncontradosNoRelatorio, execucao, anterior>>
    /\ UNCHANGED varsForaDeCruzar

\* The caller runs the matcher again on the same lists; what the previous
\* run returned is kept for comparison
Reexecutar ==
    /\ pc = "relatado"
    /\ execucao < MaxExecucoes
    /\ anterior' = Resultados
    /\ execucao' = execucao + 1
    /\ pc' = "inicio"
    /\ UNCHANGED <<pagamentosExtrato, pagamentosRelatorio, variante,
                   todosMatchesPossiveis, indice, extratoUsados, relatorioUsados,
                   extratoEncontrados, encontrados, naoEncontradosNoExtrato,
                   naoEncontradosNoRelatorio, resumo>>
    /\ UNCHANGED varsForaDeCruzar

Next ==
    \/ EnumerarCandidatos
    \/ AplicarMatch
    \/ NaoEncontradosRelatorio
    \/ NaoEncontradosExtrato
    \/ SimplesIniciar
    \/ SimplesProcessar
    \/ SimplesNaoEncontrados
    \/ GerarRelatorio
    \/ Reexecutar

Spec == Init /\ [][Next]_vars

(***************************************************************************)
(* The normalizers on their own: Init draws the argument, the action       *)
(* applies the function.  The matcher does not run.                        *)
(***************************************************************************)
CruzarParado ==
    /\ pagamentosExtrato = <<>>
    /\ pagamentosRelatorio = <<>>
    /\ variante = "exaustiva"
    /\ pc = "parado"
    /\ todosMatchesPossiveis = <<>>
    /\ indice = 1
    /\ extratoUsados = {}
    /\ relatorioUsados = {}
    /\ extratoEncontrados = {}
    /\ encontrados = <<>>
    /\ naoEncontradosNoExtrato = <<>>
    /\ naoEncontradosNoRelatorio = <<>>
    /\ resumo = pendente
    /\ execucao = 1
    /\ anterior = pendente

\* The texts of at most n characters of an alphabet
Textos(alfabeto, n) == UNION {[1..k -> alfabeto] : k \in 0..n}

AlfabetoValor == {"-", "0", "5", ",", ".", "R", " ", "a"}

\* Cells of the amount column: "-123,00", "123.00", "abc", "R$ 1.234,56",
\* and the numbers -123.45, 0 and 1234.567
ExemplosValor ==
    {Texto(<<"-", "1", "2", "3", ",", "0", "0">>),
     Texto(<<"1", "2", "3", ".", "0", "0">>),
     Texto(<<"a", "b", "c">>),
     Texto(<<"R", "$", " ", "1", ".", "2", "3", "4", ",", "5", "6">>),
     Numero(TRUE, 12345, 2),
     Numero(FALSE, 0, 0),
     Numero(FALSE, 1234567, 3)}

EntradasValor ==
    {null} \cup {Texto(s) : s \in Textos(AlfabetoValor, MaxTexto)} \cup ExemplosValor

InitValor ==
    /\ CruzarParado
    /\ valorEntrada \in EntradasValor
    /\ valorSaida = pendente
    /\ DataParada
    /\ ExtrairParado
    /\ OutrosServicosParados

NormalizarValor ==
    /\ valorSaida = pendente
    /\ valorSaida' = normalizarValorAbsoluto(valorEntrada)
    /\ UNCHANGED <<varsCruzar, valorEntrada, varsData, varsExtrair, varsOutros>>

NextValor == NormalizarValor

SpecValor == InitValor /\ [][NextValor]_vars

Anos == {24, 1900, 1901, 2023, 2024, 2099, 2100}
Separadores == {"/", "-"}
Formas == {"simples", "zeros", "espacos"}

\* What is written in a date cell: day, month and year in this order
DatasEscritas ==
    [dia : 0..MaxDia, mes : 0..MaxMes, ano : Anos,
     separador : Separadores, forma : Formas]

\* The text of a date cell: plain numbers, or day and month with two digits,
\* or that between spaces
TextoDaData(escrita) ==
    LET Dois(n) == IF escrita.forma # "simples" /\ n < 10
                   THEN <<"0">> \o Decimal(n) ELSE Decimal(n)
        escrito == Dois(escrita.dia) \o <<escrita.separador>> \o Dois(escrita.mes)
                   \o <<escrita.separador>> \o Decimal(escrita.ano)
    IN  IF escrita.forma = "espacos" THEN <<" ">> \o escrito \o <<" ">> ELSE escrito

\* Other values of a date cell: nothing, empty or blank text, Date objects
OutrasDatas == {null, Texto(<<>>), Texto(<<" ">>), D1, DataInvalida}

InitData ==
    /\ CruzarParado
    /\ ValorParado
    /\ ExtrairParado
    /\ OutrosServicosParados
    /\ \/ \E escrita \in DatasEscritas :
              /\ dataEscrita = escrita
              /\ dataEntrada = Texto(TextoDaData(escrita))
       \/ /\ dataEscrita = null
          /\ dataEntrada \in OutrasDatas
    /\ dataSaida = pendente

NormalizarData ==
    /\ dataSaida = pendente
    /\ dataSaida' = normalizarData(dataEntrada)
    /\ UNCHANGED <<varsCruzar, varsValor, dataEntrada, dataEscrita, varsExtrair, varsOutros>>

NextData == NormalizarData

SpecData == InitData /\ [][NextData]_vars

(***************************************************************************)
(* processarExtratoBancario and processarRelatorioPlanaltec.  A row of     *)
(* dados is the sequence of its cells in the order of Object.keys.         *)
(***************************************************************************)
Letras == <<"A", "B", "C", "D", "E", "F", "G", "H", "I", "J">>

\* coluna.charCodeAt(i) - 64
CodigoDaLetra(letra) == CHOOSE k \in 1..Len(Letras) : Letras[k] = letra

RECURSIVE IndiceAte(_, _)
IndiceAte(coluna, i) ==
    IF i = 0 THEN 0 ELSE IndiceAte(coluna, i - 1) * 26 + CodigoDaLetra(coluna[i])

colunaParaIndice(coluna) == IndiceAte(coluna, Len(coluna)) - 1

obterValorColuna(linha, colunaLetra) ==
    LET indiceColuna == colunaParaIndice(colunaLetra)
    IN  IF indiceColuna < Len(linha) THEN linha[indiceColuna + 1] ELSE null

\* The columns each extractor reads and the tipo it writes
Colunas(qual) ==
    IF qual = "extrato"
    THEN [valor |-> <<"E">>, descricao |-> <<"B">>, data |-> <<"A">>,
          tipo |-> "extrato_bancario"]
    ELSE [valor |-> <<"I">>, descricao |-> <<"C">>, data |-> <<"J">>,
          tipo |-> "relatorio_planaltec"]

\* Mutant of ValorValido: only a missing amount is skipped
ValorNaoNulo(valor) == valor # null

\* The negation of !valor || valor <= 0
ValorValido(valor) ==
    /\ ~Falso(valor)
    /\ ~(valor.negativo \/ valor.mantissa = 0)

\* The record built for a row at position index (from 0) of dados
Pagamento(linha, index, qual) ==
    LET valorOriginal == obterValorColuna(linha, Colunas(qual).valor)
        descricao == obterValorColuna(linha, Colunas(qual).descricao)
        dataOriginal == obterValorColuna(linha, Colunas(qual).data)
    IN  [linhaOriginal |-> index + 1,
         valor |-> normalizarValorAbsoluto(valorOriginal),
         valorOriginal |-> valorOriginal,
         descricao |-> IF Falso(descricao) THEN <<>> ELSE String(descricao),
         data |-> normalizarData(dataOriginal),
         dataOriginal |-> dataOriginal,
         tipo |-> Colunas(qual).tipo]

\* One call of the forEach callback: an empty row and a row without a valid
\* amount push nothing
ProcessarLinha(qual) ==
    /\ origem = qual
    /\ posicao < Len(dados)
    /\ LET linha == dados[posicao + 1]
           valor == normalizarValorAbsoluto(obterValorColuna(linha, Colunas(qual).valor))
       IN  pagamentosSaida' =
               IF Len(linha) = 0 \/ ~ValorValido(valor) THEN pagamentosSaida
               ELSE Append(pagamentosSaida, Pagamento(linha, posicao, qual))
    /\ posicao' = posicao + 1
    /\ UNCHANGED <<dados, origem, varsCruzar, varsValor, varsData, varsOutros>>

processarExtratoBancario == ProcessarLinha("extrato")

processarRelatorioPlanaltec == ProcessarLinha("relatorio")

CaracteresDeCelula == {"-", ",", ".", "/", "0", "1", "2", "4", "5", "7", "a"}

\* Cells of the amount column: nothing, "-5,0", "5", "a", "0"
ValoresCrus ==
    {null, Texto(<<"-", "5", ",", "0">>), Texto(<<"5">>), Texto(<<"a">>), Texto(<<"0">>)}

DescricoesCruas == {null, Texto(<<"a">>), Numero(FALSE, 7, 0)}

DatasCruas == {null, Texto(<<"5", "/", "1", "/", "2", "0", "2", "4">>)}

\* A row with the three cells in the columns the extractor reads
LinhaCrua(qual, valor, descricao, data) ==
    IF qual = "extrato"
    THEN <<data, descricao, null, null, valor>>
    ELSE <<null, null, descricao, null, null, null, null, null, valor, data>>

\* The rows of a sheet, an empty row and a row of two columns among them
LinhasCruas(qual) ==
    {LinhaCrua(qual, valor, descricao, data) :
        valor \in ValoresCrus, descricao \in DescricoesCruas, data \in DatasCruas}
    \cup {<<>>, <<Texto(<<"a">>), Texto(<<"5">>)>>}

Folhas(qual) == UNION {[1..n -> LinhasCruas(qual)] : n \in 0..MaxLinhas}

InitExtrair ==
    /\ CruzarParado
    /\ ValorParado
    /\ DataParada
    /\ OutrosServicosParados
    /\ origem \in {"extrato", "relatorio"}
    /\ dados \in Folhas(origem)
    /\ posicao = 0
    /\ pagamentosSaida = <<>>

NextExtrair ==
    \/ processarExtratoBancario
    \/ processarRelatorioPlanaltec

SpecExtrair == InitExtrair /\ [][NextExtrair]_vars

(***************************************************************************)
(* POST /api/processar-planilha (src/app/api/processar-planilha/route.ts). *)
(* A request advances from one await to the next; what runs between two    *)
(* awaits is one step, and the steps of the requests in flight interleave. *)
(***************************************************************************)
Pedidos == {1, 2}

varsForaDaRota == <<varsCruzar, varsValor, varsData, varsExtrair, varsLogin, varsGuarda, varsTardios>>

\* A File of the form data
Arquivo(nome) == [tipo |-> "File", name |-> nome]

NomeXlsx == Arquivo(<<"a", ".", "x", "l", "s", "x">>)
NomeXLS == Arquivo(<<"B", ".", "X", "L", "S">>)
NomeTxt == Arquivo(<<"c", ".", "t", "x", "t">>)

\* Line 50-51: arquivo.name.toLowerCase().split('.').pop() is xlsx or xls
ExtensaoAceita(nome) ==
    LET partes == Split(toLowerCase(nome), {"."})
    IN  partes[Len(partes)] \in {<<"x", "l", "s", "x">>, <<"x", "l", "s">>}

\* What a request carries: the three form fields (a File or null),
\* whether XLSX.read of the route accepts the uploaded bytes, and how the
\* call of realizarConciliacao on them ends
Formularios ==
    {[extratoBancario |-> NomeXlsx, relatorioFinanceiro |-> NomeXlsx,
      arquivo |-> null, legivel |-> TRUE, desfecho |-> d] :
        d \in {"sem_divergencias", "com_divergencias", "erro"}}
    \cup
    {[extratoBancario |-> NomeXlsx, relatorioFinanceiro |-> NomeXlsx,
      arquivo |-> null, legivel |-> FALSE, desfecho |-> "erro"],
     [extratoBancario |-> null, relatorioFinanceiro |-> null,
      arquivo |-> NomeXlsx, legivel |-> TRUE, desfecho |-> "erro"],
     [extratoBancario |-> null, relatorioFinanceiro |-> null,
      arquivo |-> NomeXLS, legivel |-> FALSE, desfecho |-> "erro"],
     [extratoBancario |-> null, relatorioFinanceiro |-> null,
      arquivo |-> NomeTxt, legivel |-> TRUE, desfecho |-> "erro"],
     [extratoBancario |-> NomeXlsx, relatorioFinanceiro |-> null,
      arquivo |-> null, legivel |-> TRUE, desfecho |-> "erro"],
     [extratoBancario |-> null, relatorioFinanceiro |-> null,
      arquivo |-> null, legivel |-> TRUE, desfecho |-> "erro"]}

\* Line 36: both sheets were sent
ModoConciliacao(formulario) ==
    formulario.extratoBancario # null /\ formulario.relatorioFinanceiro # null

\* join(tmpdir(), `${prefixo}-${Date.now()}-${nome}`)
Caminho(prefixo, agora, nome) == [prefixo |-> prefixo, agora |-> agora, nome |-> nome]

Existe(arquivos, caminho) == \E f \in arquivos : f.caminho = caminho

\* writeFile creates the file or replaces the one at the same path
writeFile(arquivos, caminho, r) ==
    {f \in arquivos : f.caminho # caminho} \cup {[caminho |-> caminho, dono |-> r]}

\* Mutant of unlink: the file stays
NaoExcluir(arquivos, caminho) == arquivos

unlink(arquivos, caminho) == {f \in arquivos : f.caminho # caminho}

\* The promise of the async function realizarConciliacao when the call
\* returns: rejected when its body threw, still pending when it awaits
\* gerarPlanilhaIrregulares, else fulfilled with the report
PromessaDaChamada(desfecho) ==
    CASE desfecho = "erro" -> "rejeitada"
      [] desfecho = "com_divergencias" -> "pendente"
      [] desfecho = "sem_divergencias" -> "concluida"

\* Line 216: what relatorioConciliacao holds. The call is not awaited, so
\* it is the promise whatever its state
ValorDaChamada(promessa) == [tipo |-> "Promise", estado |-> promessa]

\* Lines 224-228: relatorioConciliacao.resumo.encontrados raises a TypeError
\* when relatorioConciliacao has no resumo
ResumoLegivel(valor) == valor.tipo = "relatorio"

\* NextResponse.json(..., {status}); conciliacao is the state of the promise
\* of realizarConciliacao when the response is built
Responder(p, status) ==
    [p EXCEPT !.pc = "respondido",
              !.resposta = [status |-> status, sucesso |-> (status = 200),
                            conciliacao |-> p.promessa]]

PedidoRecebido(formulario) ==
    [formulario |-> formulario, pc |-> "recebido", caminhos |-> <<>>,
     promessa |-> "nenhuma", resposta |-> null, unlinkFalhou |-> FALSE]

InitRota ==
    /\ CruzarParado
    /\ ValorParado
    /\ DataParada
    /\ ExtrairParado
    /\ LoginParado
    /\ GuardaParada
    /\ TardiosParados
    /\ \E formularios \in [Pedidos -> Formularios] :
          pedidos = [r \in Pedidos |-> PedidoRecebido(formularios[r])]
    /\ tmp = {}
    /\ relogio = 0

\* Lines 28-61: await request.formData(), then the choice of the mode and
\* the validation of the single file
ReceberFormulario(r) ==
    /\ pedidos[r].pc = "recebido"
    /\ LET p == pedidos[r]
           f == p.formulario
       IN  pedidos' =
               [pedidos EXCEPT ![r] =
                   IF ModoConciliacao(f) THEN [p EXCEPT !.pc = "bufferExtrato"]
                   ELSE IF f.arquivo = null THEN Responder(p, 400)
                   ELSE IF ~ExtensaoAceita(f.arquivo.name) THEN Responder(p, 400)
                   ELSE [p EXCEPT !.pc = "buffer"]]
    /\ UNCHANGED <<tmp, relogio, varsForaDaRota>>

\* Lines 64-68 and 157-165: await arrayBuffer(); after the last one the
\* paths are built from Date.now() and the names
LerBuffer(r) ==
    /\ pedidos[r].pc \in {"buffer", "bufferExtrato", "bufferRelatorio"}
    /\ LET p == pedidos[r]
           f == p.formulario
       IN  pedidos' =
               [pedidos EXCEPT ![r] =
                   CASE p.pc = "buffer" ->
                            [p EXCEPT !.pc = "escrever",
                                      !.caminhos = <<Caminho("planilha", relogio, f.arquivo.name)>>]
                     [] p.pc = "bufferExtrato" -> [p EXCEPT !.pc = "bufferRelatorio"]
                     [] p.pc = "bufferRelatorio" ->
                            [p EXCEPT !.pc = "escreverExtrato",
                                      !.caminhos =
                                          <<Caminho("extrato", relogio, f.extratoBancario.name),
                                            Caminho("relatorio", relogio, f.relatorioFinanceiro.name)>>]]
    /\ UNCHANGED <<tmp, relogio, varsForaDaRota>>

\* Lines 72-96 and 169-188: await writeFile, which may be rejected; after
\* the last write XLSX.read runs and throws on bytes it cannot read
Escrever(r) ==
    /\ pedidos[r].pc \in {"escrever", "escreverExtrato", "escreverRelatorio"}
    /\ \E gravado \in BOOLEAN :
          LET p == pedidos[r]
              caminho == IF p.pc = "escreverRelatorio" THEN p.caminhos[2] ELSE p.caminhos[1]
          IN  /\ tmp' = IF gravado THEN writeFile(tmp, caminho, r) ELSE tmp
              /\ pedidos' =
                     [pedidos EXCEPT ![r].pc =
                         CASE p.pc = "escrever" ->
                                  IF gravado /\ p.formulario.legivel
                                  THEN "excluir" ELSE "excluirErro"
                           [] p.pc = "escreverExtrato" ->
                                  IF gravado THEN "escreverRelatorio" ELSE "excluirExtratoErro"
                           [] p.pc = "escreverRelatorio" ->
                                  IF gravado /\ p.formulario.legivel
                                  THEN "instrucoesExtrato" ELSE "excluirExtratoErro"]
    /\ UNCHANGED <<relogio, varsForaDaRota>>

\* Lines 190-228: await readFile of each instruction file (a failure gives
\* null); after the second one realizarConciliacao is called and the summary
\* of what it returned is read for the log
LerInstrucoes(r) ==
    /\ pedidos[r].pc \in {"instrucoesExtrato", "instrucoesRelatorio"}
    /\ LET p == pedidos[r]
           promessa == PromessaDaChamada(p.formulario.desfecho)
       IN  pedidos' =
               [pedidos EXCEPT ![r] =
                   IF p.pc = "instrucoesExtrato"
                   THEN [p EXCEPT !.pc = "instrucoesRelatorio"]
                   ELSE [p EXCEPT !.promessa = promessa,
                                  !.pc = IF ResumoLegivel(ValorDaChamada(promessa))
                                         THEN "excluirExtrato"
                                         ELSE "excluirExtratoErro"]]
    /\ UNCHANGED <<tmp, relogio, varsForaDaRota>>

PassosDeExcluir ==
    {"excluir", "excluirErro", "excluirExtrato", "excluirRelatorio",
     "excluirExtratoErro", "excluirRelatorioErro"}

\* Where a request goes after an unlink: lines 107-117 and 121-139 for one
\* file, lines 233-243 and 247-265 for the two files of a conciliation
AposExcluir(p, rejeitado) ==
    CASE p.pc = "excluir" ->
             IF rejeitado THEN [p EXCEPT !.pc = "excluirErro"] ELSE Responder(p, 200)
      [] p.pc = "excluirErro" -> Responder(p, 500)
      [] p.pc = "excluirExtrato" ->
             [p EXCEPT !.pc = IF rejeitado THEN "excluirExtratoErro" ELSE "excluirRelatorio"]
      [] p.pc = "excluirRelatorio" ->
             IF rejeitado THEN [p EXCEPT !.pc = "excluirExtratoErro"] ELSE Responder(p, 200)
      [] p.pc = "excluirExtratoErro" -> [p EXCEPT !.pc = "excluirRelatorioErro"]
      [] p.pc = "excluirRelatorioErro" -> Responder(p, 500)

\* await unlink: rejected when the file is not there, or for a reason of
\* the file system that leaves the file in place
Excluir(r) ==
    /\ pedidos[r].pc \in PassosDeExcluir
    /\ \E falha \in BOOLEAN :
          LET p == pedidos[r]
              caminho == IF p.pc \in {"excluirRelatorio", "excluirRelatorioErro"}
                         THEN p.caminhos[2] ELSE p.caminhos[1]
              existe == Existe(tmp, caminho)
              q == IF falha /\ existe THEN [p EXCEPT !.unlinkFalhou = TRUE] ELSE p
          IN  /\ tmp' = IF falha \/ ~existe THEN tmp ELSE unlink(tmp, caminho)
              /\ pedidos' = [pedidos EXCEPT ![r] = AposExcluir(q, falha \/ ~existe)]
    /\ UNCHANGED <<relogio, varsForaDaRota>>

\* gerarPlanilhaIrregulares ends and realizarConciliacao returns its report
ConcluirConciliacao(r) ==
    /\ pedidos[r].promessa = "pendente"
    /\ pedidos' = [pedidos EXCEPT ![r].promessa = "concluida"]
    /\ UNCHANGED <<tmp, relogio, varsForaDaRota>>

\* A millisecond passes
Tique ==
    /\ relogio < MaxRelogio
    /\ relogio' = relogio + 1
    /\ UNCHANGED <<pedidos, tmp, varsForaDaRota>>

NextRota ==
    \/ \E r \in Pedidos : ReceberFormulario(r)
    \/ \E r \in Pedidos : LerBuffer(r)
    \/ \E r \in Pedidos : Escrever(r)
    \/ \E r \in Pedidos : LerInstrucoes(r)
    \/ \E r \in Pedidos : Excluir(r)
    \/ \E r \in Pedidos : ConcluirConciliacao(r)
    \/ Tique

SpecRota == InitRota /\ [][NextRota]_vars

(***************************************************************************)
(* POST /api/auth/login (src/app/api/auth/login/route.ts).                 *)
(***************************************************************************)
varsForaDoLogin == <<varsCruzar, varsValor, varsData, varsExtrair, varsRota, varsGuarda, varsTardios>>

\* A body that request.json() cannot parse
CorpoInvalido == [tipo |-> "invalido"]

Objeto(pin) == [tipo |-> "objeto", pin |-> pin]

AlfabetoPin == {"1", "2", "a", " "}

\* What a client may send as pin: nothing, null, the number 1234, a text
PinsEnviados ==
    {undefined, null, Numero(FALSE, 1234, 0)}
    \cup {Texto(t) : t \in Textos(AlfabetoPin, MaxPin)}

\* The bodies: not JSON, null, a number, a text, an object
Corpos ==
    {CorpoInvalido, null, Numero(FALSE, 1212, 0), Texto(<<"1", "2", "1", "2">>)}
    \cup {Objeto(pin) : pin \in PinsEnviados}

\* process.env.PIN_AUTH: unset, empty, or a text
PinsConfigurados ==
    {undefined, Texto(<<>>), Texto(<<"1", "2", "1", "2">>),
     Texto(<<"1", "2", "1", "2", "1">>), Texto(<<"a", "a", "a", "a">>)}

\* Line 18: const { pin } = body, for a body that is neither null nor
\* undefined; a number or a text has no pin
PinDoCorpo(body) == IF body.tipo = "objeto" THEN body.pin ELSE undefined

\* Line 21: !pin || typeof pin !== "string"
PinNaoFornecido(pin) == pin.tipo # "texto" \/ pin.chars = <<>>

\* Mutant of FormatoValido: digits only, of any length
SoDigitos(pin) == \A i \in 1..Len(pin.chars) : EhDigito(pin.chars[i])

\* Line 30: /^\d{4}$/.test(pin)
FormatoValido(pin) ==
    /\ Len(pin.chars) = 4
    /\ \A i \in 1..4 : EhDigito(pin.chars[i])

RespostaLogin(status) == [status |-> status, success |-> (status = 200)]

\* Lines 14-82: request.json() rejects for a body that is not JSON and the
\* destructuring of null throws; both reach the catch
Autenticar(body, correctPin) ==
    IF body = CorpoInvalido \/ body = null THEN RespostaLogin(500)
    ELSE LET pin == PinDoCorpo(body)
         IN  IF PinNaoFornecido(pin) THEN RespostaLogin(400)
             ELSE IF ~FormatoValido(pin) THEN RespostaLogin(400)
             ELSE IF correctPin = undefined \/ correctPin.chars = <<>>
             THEN RespostaLogin(500)
             ELSE IF pin = correctPin THEN RespostaLogin(200)
             ELSE RespostaLogin(401)

InitLogin ==
    /\ CruzarParado
    /\ ValorParado
    /\ DataParada
    /\ ExtrairParado
    /\ RotaParada
    /\ GuardaParada
    /\ TardiosParados
    /\ corpo \in Corpos
    /\ pinAuth \in PinsConfigurados
    /\ respostaLogin = pendente

PostLogin ==
    /\ respostaLogin = pendente
    /\ respostaLogin' = Autenticar(corpo, pinAuth)
    /\ UNCHANGED <<corpo, pinAuth, varsForaDoLogin>>

NextLogin == PostLogin

SpecLogin == InitLogin /\ [][NextLogin]_vars

(***************************************************************************)
(* AuthGuard (src/components/auth-guard.tsx), mounted once in the root     *)
(* layout, and the login page that writes sessionStorage.  A full page     *)
(* load mounts the guard anew; a router.push, a link and the back button   *)
(* change pathname of the mounted guard.                                   *)
(***************************************************************************)
varsForaDaGuarda == <<varsCruzar, varsValor, varsData, varsExtrair, varsRota, varsLogin, varsTardios>>

Rotas == {"/", "/dashboard", "/dashboard/lotes-pagamento-europ"}

\* usePathname()
pathname == historico[Len(historico)]

\* A new entry of the history; the oldest one is dropped at the bound
Empilhar(entradas, rota) ==
    IF Len(entradas) < MaxHistorico THEN Append(entradas, rota)
    ELSE Append(Tail(entradas), rota)

\* Lines 54-63: the loading text while isChecking, else the children
Renderizar(checking, rota) == IF checking THEN "verificando" ELSE rota

InitGuarda ==
    /\ CruzarParado
    /\ ValorParado
    /\ DataParada
    /\ ExtrairParado
    /\ RotaParada
    /\ LoginParado
    /\ TardiosParados
    /\ \E rota \in Rotas : historico = <<rota>>
    /\ autenticado \in BOOLEAN
    /\ isChecking = TRUE
    /\ efeitoPendente = TRUE
    /\ renderizado = Renderizar(TRUE, pathname)
    /\ destino = "nenhum"

\* The address is typed or the page reloaded: the guard is mounted anew
\* with isChecking = true (line 24). The history holds the entries of the
\* loaded document only, the ones the back button reaches without a load
CarregarPagina(rota) ==
    /\ historico' = <<rota>>
    /\ isChecking' = TRUE
    /\ efeitoPendente' = TRUE
    /\ renderizado' = Renderizar(TRUE, rota)
    /\ destino' = "nenhum"
    /\ UNCHANGED <<autenticado, varsForaDaGuarda>>

\* Lines 26-51: the effect, after the render that a mount or a change of
\* pathname caused
ExecutarEfeito ==
    /\ efeitoPendente
    /\ efeitoPendente' = FALSE
    /\ LET isLoginPage == pathname = "/"
           isAuthenticated == autenticado
       IN  IF isLoginPage /\ isAuthenticated
           THEN /\ destino' = "/dashboard"
                /\ UNCHANGED <<isChecking, renderizado>>
           ELSE IF ~isLoginPage /\ ~isAuthenticated
           THEN /\ destino' = "/"
                /\ UNCHANGED <<isChecking, renderizado>>
           ELSE /\ isChecking' = FALSE
                /\ renderizado' = Renderizar(FALSE, pathname)
                /\ UNCHANGED destino
    /\ UNCHANGED <<historico, autenticado, varsForaDaGuarda>>

\* The navigation of a router.push completes: pathname changes and the
\* mounted guard renders again with the isChecking it has
ConcluirNavegacao ==
    /\ destino # "nenhum"
    /\ historico' = Empilhar(historico, destino)
    /\ renderizado' = Renderizar(isChecking, destino)
    /\ efeitoPendente' = TRUE
    /\ destino' = "nenhum"
    /\ UNCHANGED <<autenticado, isChecking, varsForaDaGuarda>>

\* The routes the links lead to: the logo and the sidebar entry
Links == {"/", "/dashboard/lotes-pagamento-europ"}

\* A Link is followed: the layout shows the sidebar and the logo on every
\* route but "/" (sidebar.tsx:95, dashboard/page.tsx:52)
ClicarLink(rota) ==
    /\ pathname # "/"
    /\ rota # pathname
    /\ destino' = rota
    /\ UNCHANGED <<historico, autenticado, isChecking, efeitoPendente, renderizado,
                   varsForaDaGuarda>>

\* The back button: the previous entry of the history, without a page load
Voltar ==
    /\ Len(historico) > 1
    /\ historico' = SubSeq(historico, 1, Len(historico) - 1)
    /\ renderizado' = Renderizar(isChecking, historico'[Len(historico')])
    /\ efeitoPendente' = TRUE
    /\ destino' = "nenhum"
    /\ UNCHANGED <<autenticado, isChecking, varsForaDaGuarda>>

\* handlePinComplete of the login page when the login route answered with
\* success (part_005 lines 59-65)
handlePinComplete ==
    /\ renderizado = "/"
    /\ autenticado' = TRUE
    /\ destino' = "/dashboard"
    /\ UNCHANGED <<historico, isChecking, efeitoPendente, renderizado, varsForaDaGuarda>>

NextGuarda ==
    \/ \E rota \in Rotas : CarregarPagina(rota)
    \/ ExecutarEfeito
    \/ ConcluirNavegacao
    \/ \E rota \in Links : ClicarLink(rota)
    \/ Voltar
    \/ handlePinComplete

SpecGuarda == InitGuarda /\ [][NextGuarda]_vars

(***************************************************************************)
(* compararDatas on its own, on cells as the sheets hold them: nothing,    *)
(* text, and Date objects that carry a time of day.                        *)
(***************************************************************************)
varsAntesDosTardios ==
    <<varsCruzar, varsValor, varsData, varsExtrair, varsRota, varsLogin, varsGuarda>>

AntesDosTardiosParados ==
    /\ CruzarParado
    /\ ValorParado
    /\ DataParada
    /\ ExtrairParado
    /\ RotaParada
    /\ LoginParado
    /\ GuardaParada

\* A valid Date object with its getHours()
DataComHora(ano, mes, dia, hora) ==
    [tipo |-> "data", ano |-> ano, mes |-> mes, dia |-> dia, hora |-> hora]

\* Date cells: nothing, the number 0, empty text, an invalid Date, 5 January
\* 2024 written in three ways, 6 January, 1 May, a day that does not exist,
\* and Date objects of 5 and 6 January 2024 and 5 January 2023 at several hours
DatasParaComparar ==
    {null, Numero(FALSE, 0, 0), Texto(<<>>), DataInvalida,
     Texto(<<"5", "/", "1", "/", "2", "0", "2", "4">>),
     Texto(<<"0", "5", "-", "0", "1", "-", "2", "0", "2", "4">>),
     Texto(<<" ", "5", "/", "1", "/", "2", "0", "2", "4">>),
     Texto(<<"6", "/", "1", "/", "2", "0", "2", "4">>),
     Texto(<<"1", "/", "5", "/", "2", "0", "2", "4">>),
     Texto(<<"3", "2", "/", "1", "/", "2", "0", "2", "4">>),
     DataComHora(2024, 0, 5, 0), DataComHora(2024, 0, 5, 13),
     DataComHora(2024, 0, 6, 0), DataComHora(2023, 0, 5, 23)}

\* A JavaScript boolean
Booleano(b) == [tipo |-> "boolean", valor |-> b]

InitComparar ==
    /\ AntesDosTardiosParados
    /\ PalavrasParado
    /\ PaginaParada
    /\ dataA \in DatasParaComparar
    /\ dataB \in DatasParaComparar
    /\ iguais = pendente

CompararDatas ==
    /\ iguais = pendente
    /\ iguais' = Booleano(compararDatas(dataA, dataB))
    /\ UNCHANGED <<dataA, dataB, varsAntesDosTardios, varsPalavras, varsPagina>>

NextComparar == CompararDatas

SpecComparar == InitComparar /\ [][NextComparar]_vars

(***************************************************************************)
(* contarPalavrasComuns on its own.                                        *)
(***************************************************************************)
AlfabetoDescricao == {"a", "b", " "}

PagamentoJoaoSilva ==
    <<"P", "a", "g", "a", "m", "e", "n", "t", "o", " ",
      "J", "o", "ã", "o", " ", "S", "i", "l", "v", "a">>

JoaoSilvaPagamento ==
    <<"j", "o", "ã", "o", " ", "s", "i", "l", "v", "a", " ",
      "p", "a", "g", "a", "m", "e", "n", "t", "o">>

\* Pairs with accents, capitals, tabs and repeated words
ExemplosDeDescricoes ==
    {<<PagamentoJoaoSilva, JoaoSilvaPagamento>>,
     <<JoaoSilvaPagamento, PagamentoJoaoSilva>>,
     <<<<"Á", " ", "B", "\t", "á">>, <<"a", " ", " ", "c">>>>,
     <<<<"a", " ", " ", "c">>, <<"Á", " ", "B", "\t", "á">>>>,
     <<<<"ç", "a", " ", "C", "A">>, <<"c", "a">>>>}

InitPalavras ==
    /\ AntesDosTardiosParados
    /\ PaginaParada
    /\ CompararParado
    /\ \/ /\ descricaoA \in Textos(AlfabetoDescricao, MaxDescricao)
          /\ descricaoB \in Textos(AlfabetoDescricao, MaxDescricao)
       \/ \E par \in ExemplosDeDescricoes :
              /\ descricaoA = par[1]
              /\ descricaoB = par[2]
    /\ comuns = -1

ContarPalavrasComuns ==
    /\ comuns = -1
    /\ comuns' = contarPalavrasComuns(descricaoA, descricaoB)
    /\ UNCHANGED <<descricaoA, descricaoB, varsAntesDosTardios, varsComparar, varsPagina>>

NextPalavras == ContarPalavrasComuns

SpecPalavras == InitPalavras /\ [][NextPalavras]_vars

(***************************************************************************)
(* The conciliation page (src/unnamed/part_003, ConciliacaoPage) and its   *)
(* two UploadXlsx widgets (src/unnamed/part_010).  Each widget keeps the   *)
(* file it shows in its own state and tells the page through onFileSelect  *)
(* and onFileRemove; the page keeps one file per slot.  The answer of the  *)
(* server to the fetch is an input.                                        *)
(***************************************************************************)
Widgets == {"extrato", "relatorio"}

MimeXlsx == "application/vnd.openxmlformats-officedocument.spreadsheetml.sheet"
MimeXls == "application/vnd.ms-excel"

\* A File the user picks or drops: its name and its MIME type
ArquivoDeTipo(nome, mime) == [tipo |-> "File", name |-> nome, type |-> mime]

ArquivosDoUsuario ==
    {ArquivoDeTipo(NomeXlsx.name, MimeXlsx),
     ArquivoDeTipo(NomeXLS.name, ""),
     ArquivoDeTipo(NomeTxt.name, "text/plain"),
     ArquivoDeTipo(NomeTxt.name, MimeXls)}

\* UploadXlsx lines 68-89: extensaoValida || tipoMimeValido
validarArquivo(file) ==
    ExtensaoAceita(file.name) \/ file.type \in {MimeXlsx, MimeXls}

\* What the server answers to the POST, or the fetch failing
RespostasDoServidor == {"sucesso", "erro", "excecao"}

\* ConciliacaoPage line 257: arquivoExtratoBancario && arquivoRelatorioFinanceiro
BotaoOferecido(extrato, relatorioFinanceiro) ==
    extrato # null /\ relatorioFinanceiro # null

InitPagina ==
    /\ AntesDosTardiosParados
    /\ CompararParado
    /\ PalavrasParado
    /\ PaginaParada

\* UploadXlsx processarArquivo (lines 95-118), reached from the file input
\* or a drop, both offered while the widget shows no file; the callback is
\* handleExtratoBancarioSelecionado or handleRelatorioFinanceiroSelecionado
processarArquivo(w, file) ==
    /\ arquivoSelecionado[w] = null
    /\ IF ~validarArquivo(file)
       THEN /\ toast' = "invalido"
            /\ UNCHANGED <<arquivoSelecionado, arquivoExtratoBancario,
                           arquivoRelatorioFinanceiro>>
       ELSE /\ arquivoSelecionado' = [arquivoSelecionado EXCEPT ![w] = file]
            /\ toast' = "selecionado"
            /\ IF w = "extrato"
               THEN /\ arquivoExtratoBancario' = file
                    /\ UNCHANGED arquivoRelatorioFinanceiro
               ELSE /\ arquivoRelatorioFinanceiro' = file
                    /\ UNCHANGED arquivoExtratoBancario
    /\ UNCHANGED <<isProcessando, emVoo, varsAntesDosTardios, varsComparar, varsPalavras>>

\* UploadXlsx handleRemoverArquivo (lines 159-175), on the button of the
\* card of the file shown; the callback is handleExtratoBancarioRemovido
\* or handleRelatorioFinanceiroRemovido
handleRemoverArquivo(w) ==
    /\ arquivoSelecionado[w] # null
    /\ arquivoSelecionado' = [arquivoSelecionado EXCEPT ![w] = null]
    /\ IF w = "extrato"
       THEN /\ arquivoExtratoBancario' = null
            /\ UNCHANGED arquivoRelatorioFinanceiro
       ELSE /\ arquivoRelatorioFinanceiro' = null
            /\ UNCHANGED arquivoExtratoBancario
    /\ toast' = "removido"
    /\ UNCHANGED <<isProcessando, emVoo, varsAntesDosTardios, varsComparar, varsPalavras>>

\* ConciliacaoPage handleProcessarConciliacao up to its await fetch (lines
\* 90-116), on the button of lines 257-291, disabled while isProcessando
handleProcessarConciliacao ==
    /\ BotaoOferecido(arquivoExtratoBancario, arquivoRelatorioFinanceiro)
    /\ ~isProcessando
    /\ IF arquivoExtratoBancario = null \/ arquivoRelatorioFinanceiro = null
       THEN /\ toast' = "incompletos"
            /\ UNCHANGED <<isProcessando, emVoo>>
       ELSE /\ isProcessando' = TRUE
            /\ emVoo' = TRUE
            /\ UNCHANGED toast
    /\ UNCHANGED <<arquivoExtratoBancario, arquivoRelatorioFinanceiro,
                   arquivoSelecionado, varsAntesDosTardios, varsComparar, varsPalavras>>

\* ConciliacaoPage lines 118-172: the rest of the handler once the answer
\* is in; only the page's two files are cleared after a success
ReceberResposta(resposta) ==
    /\ emVoo
    /\ emVoo' = FALSE
    /\ IF resposta = "sucesso"
       THEN /\ arquivoExtratoBancario' = null
            /\ arquivoRelatorioFinanceiro' = null
            /\ toast' = "concluida"
       ELSE /\ toast' = IF resposta = "erro" THEN "erro_na_conciliacao"
                        ELSE "erro_ao_processar"
            /\ UNCHANGED <<arquivoExtratoBancario, arquivoRelatorioFinanceiro>>
    /\ isProcessando' = FALSE
    /\ UNCHANGED <<arquivoSelecionado, varsAntesDosTardios, varsComparar, varsPalavras>>

NextPagina ==
    \/ \E w \in Widgets, file \in ArquivosDoUsuario : processarArquivo(w, file)
    \/ \E w \in Widgets : handleRemoverArquivo(w)
    \/ handleProcessarConciliacao
    \/ \E resposta \in RespostasDoServidor : ReceberResposta(resposta)

SpecPagina == InitPagina /\ [][NextPagina]_vars

(***************************************************************************)
(* Properties of the matcher.                                              *)
(***************************************************************************)
Terminou == pc \in {"fim", "relatado"}

\* An unmatched entry without the fields added to the copy
RegistroDe(entrada) ==
    Registro(entrada.linhaOriginal, entrada.valor, entrada.descricao, entrada.data)

Vezes(seq, x) == Cardinality({i \in 1..Len(seq) : seq[i] = x})

ExtratosCasados == [k \in 1..Len(encontrados) |-> encontrados[k].extrato]
RelatoriosCasados == [k \in 1..Len(encontrados) |-> encontrados[k].relatorio]
ExtratosSobrando ==
    [k \in 1..Len(naoEncontradosNoRelatorio) |-> RegistroDe(naoEncontradosNoRelatorio[k])]
RelatoriosSobrando ==
    [k \in 1..Len(naoEncontradosNoExtrato) |-> RegistroDe(naoEncontradosNoExtrato[k])]

\* Empty or made of white space only
EmBranco(descricao) == \A i \in 1..Len(descricao) : descricao[i] \in Espacos

ExtratosOmitidos ==
    {i \in 1..Len(pagamentosExtrato) :
        /\ EmBranco(pagamentosExtrato[i].descricao)
        /\ Vezes(ExtratosCasados, pagamentosExtrato[i]) = 0}

\* C1 as stated: once the exhaustive variant has returned, every statement
\* record is exactly once in encontrados or naoEncontradosNoRelatorio, and
\* the two lengths add up to the length of pagamentosExtrato.
C1_ExtratoParticionado ==
    (Terminou /\ variante = "exaustiva") =>
        /\ \A i \in 1..Len(pagamentosExtrato) :
               Vezes(ExtratosCasados, pagamentosExtrato[i])
                   + Vezes(ExtratosSobrando, pagamentosExtrato[i]) = 1
        /\ Len(encontrados) + Len(naoEncontradosNoRelatorio) = Len(pagamentosExtrato)

\* C1 amended: once the exhaustive variant has returned, every statement
\* record with a description that is not blank is exactly once in
\* encontrados or naoEncontradosNoRelatorio; a record with a blank
\* description is once in encontrados when matched and in neither list
\* otherwise, so the two lengths add up to the length of pagamentosExtrato
\* less the unmatched records with a blank description.
C1_ExtratoParticionadoSalvoEmBranco ==
    (Terminou /\ variante = "exaustiva") =>
        /\ \A i \in 1..Len(pagamentosExtrato) :
               Vezes(ExtratosCasados, pagamentosExtrato[i])
                   + Vezes(ExtratosSobrando, pagamentosExtrato[i])
               = IF i \in ExtratosOmitidos THEN 0 ELSE 1
        /\ Len(encontrados) + Len(naoEncontradosNoRelatorio)
               = Len(pagamentosExtrato) - Cardinality(ExtratosOmitidos)

\* A run of the exhaustive variant that has matched one statement record
\* with a blank description, passed over another and listed an unmatched
\* record with a description
C1_Testemunha ==
    /\ Terminou
    /\ variante = "exaustiva"
    /\ ExtratosOmitidos # {}
    /\ \E k \in 1..Len(encontrados) : EmBranco(encontrados[k].extrato.descricao)
    /\ Len(naoEncontradosNoRelatorio) > 0

\* C2: once either variant has returned, every report record is exactly
\* once in encontrados or naoEncontradosNoExtrato, and the two lengths add
\* up to the length of pagamentosRelatorio.
C2_RelatorioParticionado ==
    Terminou =>
        /\ \A i \in 1..Len(pagamentosRelatorio) :
               Vezes(RelatoriosCasados, pagamentosRelatorio[i])
                   + Vezes(RelatoriosSobrando, pagamentosRelatorio[i]) = 1
        /\ Len(encontrados) + Len(naoEncontradosNoExtrato) = Len(pagamentosRelatorio)

\* A finished run with a matched report record, one whose amount the
\* statement lacks and one whose same-amount statement records were taken
C2_Testemunha ==
    /\ Terminou
    /\ Len(encontrados) > 0
    /\ \E k \in 1..Len(naoEncontradosNoExtrato) :
           naoEncontradosNoExtrato[k].valor \notin ValoresDe(pagamentosExtrato)
    /\ \E k \in 1..Len(naoEncontradosNoExtrato) :
           naoEncontradosNoExtrato[k].valor \in ValoresDe(pagamentosExtrato)

LinhasDistintas(pagamentos) ==
    \A i, j \in 1..Len(pagamentos) :
        pagamentos[i].linhaOriginal = pagamentos[j].linhaOriginal => i = j

\* C3: for lists with distinct linhaOriginal, once either variant has
\* returned no record of either side is in two entries of encontrados, and
\* no record is both in encontrados and in an unmatched list.
C3_UmParaUm ==
    (/\ Terminou
     /\ LinhasDistintas(pagamentosExtrato)
     /\ LinhasDistintas(pagamentosRelatorio)) =>
        /\ \A i \in 1..Len(pagamentosExtrato) :
               /\ Vezes(ExtratosCasados, pagamentosExtrato[i]) <= 1
               /\ ~(/\ Vezes(ExtratosCasados, pagamentosExtrato[i]) > 0
                    /\ Vezes(ExtratosSobrando, pagamentosExtrato[i]) > 0)
        /\ \A i \in 1..Len(pagamentosRelatorio) :
               /\ Vezes(RelatoriosCasados, pagamentosRelatorio[i]) <= 1
               /\ ~(/\ Vezes(RelatoriosCasados, pagamentosRelatorio[i]) > 0
                    /\ Vezes(RelatoriosSobrando, pagamentosRelatorio[i]) > 0)

\* A finished run in which two pairs were matched among records of one
\* amount and a third record of that amount stayed unmatched
C3_Testemunha ==
    /\ Terminou
    /\ \E j, k \in 1..Len(encontrados) :
           j # k /\ encontrados[j].extrato.valor = encontrados[k].extrato.valor
    /\ \E k \in 1..Len(encontrados) :
           \/ \E u \in 1..Len(naoEncontradosNoExtrato) :
                  naoEncontradosNoExtrato[u].valor = encontrados[k].extrato.valor
           \/ \E u \in 1..Len(naoEncontradosNoRelatorio) :
                  naoEncontradosNoRelatorio[u].valor = encontrados[k].extrato.valor

Enumerado == variante = "exaustiva" /\ pc # "inicio"

\* C4 as stated: in the sorted candidate list every candidate with a date
\* match has a strictly higher score than every candidate without one, and
\* a lone report record with two same-amount statement candidates, one with
\* its date and one without, is matched to the one with its date.
C4_DataDomina ==
    Enumerado =>
        /\ \A i, j \in 1..Len(todosMatchesPossiveis) :
               (todosMatchesPossiveis[i].dataMatch
                    /\ ~todosMatchesPossiveis[j].dataMatch)
               => todosMatchesPossiveis[i].score > todosMatchesPossiveis[j].score
        /\ (/\ Terminou
            /\ Len(pagamentosRelatorio) = 1
            /\ Len(todosMatchesPossiveis) = 2
            /\ todosMatchesPossiveis[1].dataMatch # todosMatchesPossiveis[2].dataMatch)
           => (Len(encontrados) = 1 /\ encontrados[1].dataMatch)

\* The one-to-one assignments between same-amount records: f[i] is the
\* position of the statement record given to report record i, or 0
Atribuicoes ==
    {f \in [1..Len(pagamentosRelatorio) -> 0..Len(pagamentosExtrato)] :
        /\ \A i \in DOMAIN f :
               f[i] # 0 => pagamentosExtrato[f[i]].valor = pagamentosRelatorio[i].valor
        /\ \A i, j \in DOMAIN f : (f[i] # 0 /\ f[i] = f[j]) => i = j}

\* The candidate of report record i and statement record j
CandidatoDe(i, j) ==
    CHOOSE m \in Imagem(todosMatchesPossiveis) :
        /\ m.relatorio.linhaOriginal = pagamentosRelatorio[i].linhaOriginal
        /\ m.extrato.linhaOriginal = pagamentosExtrato[j].linhaOriginal

RECURSIVE ScoreTotal(_, _)
ScoreTotal(f, i) ==
    IF i > Len(pagamentosRelatorio) THEN 0
    ELSE (IF f[i] = 0 THEN 0 ELSE CandidatoDe(i, f[i]).score) + ScoreTotal(f, i + 1)

RECURSIVE ScoreEncontrados(_)
ScoreEncontrados(k) ==
    IF k > Len(encontrados) THEN 0
    ELSE Score(encontrados[k].dataMatch, encontrados[k].palavrasComuns)
         + ScoreEncontrados(k + 1)

Pares(f) == Cardinality({i \in DOMAIN f : f[i] # 0})

\* C5 as stated: when the exhaustive variant returns, no one-to-one
\* assignment between same-amount records has a higher total score than
\* encontrados (from which the claim derives that none has more pairs whose
\* dates match).
C5_ScoreMaximo ==
    (pc = "fim" /\ variante = "exaustiva") =>
        \A f \in Atribuicoes : ScoreTotal(f, 1) <= ScoreEncontrados(1)

\* C5 amended: when the exhaustive variant returns, encontrados holds a
\* pair of the highest score among all candidates and as many pairs as any
\* one-to-one assignment between same-amount records can hold; its total
\* score need not be the highest.
C5_GulosoPorScore ==
    (pc = "fim" /\ variante = "exaustiva") =>
        /\ \A f \in Atribuicoes : Pares(f) <= Len(encontrados)
        /\ \A i \in 1..Len(todosMatchesPossiveis) :
               \E k \in 1..Len(encontrados) :
                   Score(encontrados[k].dataMatch, encontrados[k].palavrasComuns)
                       >= todosMatchesPossiveis[i].score

\* A run of the exhaustive variant that returned two pairs although another
\* assignment of the same records has a higher total score
C5_Testemunha ==
    /\ pc = "fim"
    /\ variante = "exaustiva"
    /\ Len(encontrados) = 2
    /\ \E f \in Atribuicoes : ScoreTotal(f, 1) > ScoreEncontrados(1)

\* C6: a second run of cruzarPagamentos on the same lists returns the same
\* encontrados, naoEncontradosNoExtrato and naoEncontradosNoRelatorio, in
\* the same order, as the run before it.
C6_MesmoResultado ==
    (Terminou /\ execucao > 1) => Resultados = anterior

\* A second run that has returned matches and both kinds of unmatched
\* records
C6_Testemunha ==
    /\ pc = "fim"
    /\ execucao = 2
    /\ Len(encontrados) > 1
    /\ Len(naoEncontradosNoExtrato) > 0
    /\ Len(naoEncontradosNoRelatorio) > 0

Distancia(a, b) == IF a >= b THEN a - b ELSE b - a

\* Amounts that differ, by at most 1% of the report amount
QuaseIguais(valorRelatorio, valorExtrato) ==
    /\ valorRelatorio # valorExtrato
    /\ 100 * Distancia(valorRelatorio, valorExtrato) <= valorRelatorio

EhCandidato(pagRelatorio, pagExtrato) ==
    \E i \in 1..Len(todosMatchesPossiveis) :
        /\ todosMatchesPossiveis[i].relatorio = pagRelatorio
        /\ todosMatchesPossiveis[i].extrato = pagExtrato

CentesimosDe(taxa) ==
    100 * NumeroDe(taxa, Len(taxa) - 4)
    + 10 * ValorDigito(taxa[Len(taxa) - 2]) + ValorDigito(taxa[Len(taxa) - 1])

EhPercentualFixo(taxa) ==
    /\ Len(taxa) >= 5
    /\ taxa[Len(taxa)] = "%"
    /\ taxa[Len(taxa) - 3] = "."
    /\ \A k \in (1..(Len(taxa) - 4)) \cup {Len(taxa) - 2, Len(taxa) - 1} :
           EhDigito(taxa[k])

\* C8: the summary's taxaConciliacao is "0%" when there are no report
\* records and otherwise the percentage 100 * |encontrados| /
\* |pagamentosRelatorio| written with two decimals (the nearest hundredth),
\* always between 0% and 100%.
C8_TaxaConciliacao ==
    pc = "relatado" =>
        /\ resumo.totalEncontrados = Len(encontrados)
        /\ resumo.totalRelatorio = Len(pagamentosRelatorio)
        /\ IF Len(pagamentosRelatorio) = 0
           THEN resumo.taxaConciliacao = <<"0", "%">>
           ELSE /\ EhPercentualFixo(resumo.taxaConciliacao)
                /\ LET centesimos == CentesimosDe(resumo.taxaConciliacao)
                   IN  /\ 2 * Distancia(centesimos * Len(pagamentosRelatorio),
                                        10000 * Len(encontrados))
                              <= Len(pagamentosRelatorio)
                       /\ centesimos >= 0
                       /\ centesimos <= 10000

\* The summary of a run with 4 matches for 5 report records: 80.00%
C8_Testemunha ==
    /\ pc = "relatado"
    /\ Len(encontrados) = 4
    /\ Len(pagamentosRelatorio) = 5
    /\ resumo.taxaConciliacao = <<"8", "0", ".", "0", "0", "%">>

\* Text made of digits, commas and points, with a digit
TextoNumerico(s) ==
    /\ \A i \in 1..Len(s) : EhDigito(s[i]) \/ s[i] \in {",", "."}
    /\ \E i \in 1..Len(s) : EhDigito(s[i])

\* C9: normalizarValorAbsoluto returns null or a number that is not
\* negative; for a numeric text s, "-" followed by s gives what s gives
\* ("-123,00" and "123.00" both give 123); null, the empty text and text
\* without a digit, such as "abc", give null.
C9_SinalDescartado ==
    valorSaida # pendente =>
        /\ \/ valorSaida = null
           \/ /\ valorSaida.tipo = "numero"
              /\ ~valorSaida.negativo \/ valorSaida.mantissa = 0
        /\ (valorEntrada.tipo = "texto" /\ TextoNumerico(valorEntrada.chars)) =>
               normalizarValorAbsoluto(Texto(<<"-">> \o valorEntrada.chars)) = valorSaida
        /\ (\/ valorEntrada = null
            \/ (/\ valorEntrada.tipo = "texto"
                /\ \A i \in 1..Len(valorEntrada.chars) : ~EhDigito(valorEntrada.chars[i])))
           => valorSaida = null
        /\ valorEntrada \in {Texto(<<"-", "1", "2", "3", ",", "0", "0">>),
                             Texto(<<"1", "2", "3", ".", "0", "0">>)}
           => valorSaida = Numero(FALSE, 123, 0)

\* "-123,00" normalized to 123
C9_Testemunha ==
    /\ valorEntrada = Texto(<<"-", "1", "2", "3", ",", "0", "0">>)
    /\ valorSaida = Numero(FALSE, 123, 0)

\* The calendar has the day: 30 days in April, June, September and
\* November, 28 in February and 29 in a leap year
DataExiste(dia, mes, ano) ==
    /\ dia >= 1
    /\ mes \in 1..12
    /\ dia <= (IF mes \in {4, 6, 9, 11} THEN 30
               ELSE IF mes # 2 THEN 31
               ELSE IF ano % 400 = 0 \/ (ano % 4 = 0 /\ ano % 100 # 0) THEN 29
               ELSE 28)

\* C10: for a text written day, month, year with "/" or "-", day in 1..31,
\* month in 1..12 and a four-digit year after 1900 and before 2100,
\* normalizarData returns that very date when the calendar has it and null
\* when it has not; a day of 32 with a four-digit year gives null.
C10_DataDoCalendario ==
    (dataSaida # pendente /\ dataEscrita # null) =>
        /\ (/\ dataEscrita.dia \in 1..31
            /\ dataEscrita.mes \in 1..12
            /\ dataEscrita.ano > 1900
            /\ dataEscrita.ano < 2100)
           => dataSaida = IF DataExiste(dataEscrita.dia, dataEscrita.mes, dataEscrita.ano)
                          THEN Data(dataEscrita.ano, dataEscrita.mes - 1, dataEscrita.dia)
                          ELSE null
        /\ (dataEscrita.dia = 32 /\ dataEscrita.ano >= 1000) => dataSaida = null

\* 29-02-2023, written with "-", normalized to null
C10_Testemunha ==
    /\ dataEscrita # null
    /\ dataEscrita.dia = 29
    /\ dataEscrita.mes = 2
    /\ dataEscrita.ano = 2023
    /\ dataEscrita.separador = "-"
    /\ dataSaida = null

\* C11 as stated: a text written day, month, two-digit year is read as that
\* day and month of the year 2000 + YY when the calendar has the date, and
\* gives null when it has not.
C11_AnoDeDoisDigitos ==
    (/\ dataSaida # pendente
     /\ dataEscrita # null
     /\ dataEscrita.dia \in 1..31
     /\ dataEscrita.mes \in 1..12
     /\ dataEscrita.ano \in 0..99)
    => dataSaida = IF DataExiste(dataEscrita.dia, dataEscrita.mes, 2000 + dataEscrita.ano)
                   THEN Data(2000 + dataEscrita.ano, dataEscrita.mes - 1, dataEscrita.dia)
                   ELSE null

\* The amount cell of row i of dados
ValorCru(i) == obterValorColuna(dados[i], Colunas(origem).valor)

\* The positions in pagamentosSaida of the records of row i
RegistrosDaLinha(i) ==
    {k \in 1..Len(pagamentosSaida) : pagamentosSaida[k].linhaOriginal = i}

\* C12: of the rows an extractor has gone through, each row whose amount
\* normalizes to a number above 0 has exactly one record and every other row
\* none; the records are in row order with linhaOriginal the row's position
\* from 1, an amount above 0 and a description that is text.
C12_UmRegistroPorLinhaValida ==
    origem # "nenhuma" =>
        /\ \A i \in 1..posicao :
               LET valor == normalizarValorAbsoluto(ValorCru(i))
               IN  Cardinality(RegistrosDaLinha(i)) =
                       IF valor # null /\ ~valor.negativo /\ valor.mantissa > 0
                       THEN 1 ELSE 0
        /\ \A k \in 1..Len(pagamentosSaida) :
               /\ pagamentosSaida[k].linhaOriginal \in 1..posicao
               /\ pagamentosSaida[k].valor.tipo = "numero"
               /\ ~pagamentosSaida[k].valor.negativo
               /\ pagamentosSaida[k].valor.mantissa > 0
               /\ pagamentosSaida[k].descricao \in Seq(CaracteresDeCelula)
               /\ k > 1 => pagamentosSaida[k - 1].linhaOriginal
                               < pagamentosSaida[k].linhaOriginal

\* A sheet gone through whose first row has no amount, whose second row has
\* one and an empty description cell: one record, of row 2, description ""
C12_Testemunha ==
    /\ origem = "relatorio"
    /\ posicao = 2
    /\ Len(dados) = 2
    /\ ValorCru(1) = Texto(<<"0">>)
    /\ obterValorColuna(dados[2], Colunas(origem).descricao) = null
    /\ Len(pagamentosSaida) = 1
    /\ pagamentosSaida[1].linhaOriginal = 2
    /\ pagamentosSaida[1].descricao = <<>>

\* A raw amount below zero: text that begins with "-", or a negative number
ValorCruNegativo(cru) ==
    \/ cru.tipo = "texto" /\ cru.chars # <<>> /\ cru.chars[1] = "-"
    \/ cru.tipo = "numero" /\ cru.negativo /\ cru.mantissa # 0

\* C13 as stated: every record of the statement extractor comes from a row
\* whose raw amount is negative (a debit).
C13_SoDebitos ==
    origem = "extrato" =>
        \A k \in 1..Len(pagamentosSaida) :
            ValorCruNegativo(pagamentosSaida[k].valorOriginal)

\* C13 amended: the statement extractor does not look at the sign: a row
\* with the raw amount "5" (a credit) and a row with the raw amount "-5,0"
\* (a debit) each become a record, both with the amount 5.
C13_SinalIgnorado ==
    origem = "extrato" =>
        \A i \in 1..posicao :
            ValorCru(i) \in {Texto(<<"5">>), Texto(<<"-", "5", ",", "0">>)}
            => \E k \in RegistrosDaLinha(i) :
                   /\ pagamentosSaida[k].valor = Numero(FALSE, 5, 0)
                   /\ pagamentosSaida[k].valorOriginal = ValorCru(i)

\* A statement sheet gone through with a credit row and a debit row, both
\* records
C13_Testemunha ==
    /\ origem = "extrato"
    /\ posicao = 2
    /\ ValorCru(1) = Texto(<<"5">>)
    /\ ValorCru(2) = Texto(<<"-", "5", ",", "0">>)
    /\ Len(pagamentosSaida) = 2
    /\ pagamentosSaida[1].valor = pagamentosSaida[2].valor

CamposDoRegistro == {"linhaOriginal", "valor", "descricao", "data"}

\* C14: no step of cruzarPagamentos changes pagamentosExtrato or
\* pagamentosRelatorio (length, order, field values); when it has returned,
\* every match holds a statement record and a report record of the input
\* lists as they are, and every unmatched entry has the fields of an input
\* record of its list, with the same values, plus motivo.
C14_EntradasIntactas ==
    /\ [][/\ pagamentosExtrato' = pagamentosExtrato
          /\ pagamentosRelatorio' = pagamentosRelatorio]_vars
    /\ [](Terminou =>
            /\ \A k \in 1..Len(encontrados) :
                   /\ encontrados[k].extrato \in Imagem(pagamentosExtrato)
                   /\ encontrados[k].relatorio \in Imagem(pagamentosRelatorio)
            /\ \A k \in 1..Len(naoEncontradosNoExtrato) :
                   /\ RegistroDe(naoEncontradosNoExtrato[k]) \in Imagem(pagamentosRelatorio)
                   /\ CamposDoRegistro \cup {"motivo"}
                          \subseteq DOMAIN naoEncontradosNoExtrato[k]
            /\ \A k \in 1..Len(naoEncontradosNoRelatorio) :
                   /\ RegistroDe(naoEncontradosNoRelatorio[k]) \in Imagem(pagamentosExtrato)
                   /\ CamposDoRegistro \cup {"motivo"}
                          \subseteq DOMAIN naoEncontradosNoRelatorio[k]
            /\ \A i \in 1..Len(pagamentosExtrato) :
                   DOMAIN pagamentosExtrato[i] = CamposDoRegistro
            /\ \A i \in 1..Len(pagamentosRelatorio) :
                   DOMAIN pagamentosRelatorio[i] = CamposDoRegistro)

\* A run of the exhaustive variant that has returned a match and an
\* unmatched entry of each list
C14_Testemunha ==
    /\ pc = "fim"
    /\ variante = "exaustiva"
    /\ Len(encontrados) > 0
    /\ Len(naoEncontradosNoExtrato) > 0
    /\ Len(naoEncontradosNoRelatorio) > 0
    /\ execucao = 1

\* C15: a conciliation request whose two sheets are readable and whose
\* reconciliation was started is answered only once realizarConciliacao has
\* completed, with status 200 and sucesso = true; it is answered 500 only
\* when the reconciliation raised an error
C15_RespostaAposConciliacao ==
    \A r \in DOMAIN pedidos :
        LET p == pedidos[r]
        IN  (/\ ModoConciliacao(p.formulario)
             /\ p.formulario.legivel
             /\ p.resposta # null
             /\ p.resposta.conciliacao # "nenhuma")
            => IF p.formulario.desfecho = "erro"
               THEN p.resposta.status = 500
               ELSE /\ p.resposta.conciliacao = "concluida"
                    /\ p.resposta.status = 200
                    /\ p.resposta.sucesso

\* C16: once a request is answered, no file it wrote is left in the
\* temporary directory, provided no unlink of the request failed with the
\* file in place
C16_TemporariosExcluidos ==
    \A r \in DOMAIN pedidos :
        (pedidos[r].pc = "respondido" /\ ~pedidos[r].unlinkFalhou)
        => \A f \in tmp : f.dono # r

\* C16 witness: a conciliation request wrote its two files, failed after
\* that and is answered, and a single-file request is answered 200
C16_Testemunha ==
    /\ \E r \in DOMAIN pedidos :
          /\ pedidos[r].pc = "respondido"
          /\ pedidos[r].resposta.conciliacao # "nenhuma"
          /\ ~pedidos[r].unlinkFalhou
    /\ \E r \in DOMAIN pedidos :
          /\ pedidos[r].pc = "respondido"
          /\ ~ModoConciliacao(pedidos[r].formulario)
          /\ pedidos[r].resposta.status = 200
    /\ tmp = {}

\* The pin of the body as the claim reads it: missing when the body has none
PinDeclarado ==
    IF corpo.tipo = "objeto" THEN corpo.pin ELSE undefined

\* A text of exactly four characters, each of them one of 0..9
QuatroDigitos(pin) ==
    /\ pin.tipo = "texto"
    /\ Len(pin.chars) = 4
    /\ \A i \in 1..Len(pin.chars) :
          pin.chars[i] \in {"0", "1", "2", "3", "4", "5", "6", "7", "8", "9"}

PinAuthConfigurado == pinAuth # undefined /\ pinAuth # Texto(<<>>)

\* The status the claim gives to a request by its pin alone
StatusPeloPin ==
    IF ~QuatroDigitos(PinDeclarado) THEN 400
    ELSE IF ~PinAuthConfigurado THEN 500
    ELSE IF PinDeclarado = pinAuth THEN 200
    ELSE 401

\* C17 as stated: the login route answers 200 with success = true exactly
\* for a pin of four digits equal to the configured PIN_AUTH, and otherwise
\* 400 for a missing, non-text or malformed pin, 500 when PIN_AUTH is not
\* configured and 401 for another well-formed pin
C17_StatusPeloPin ==
    respostaLogin # pendente
    => /\ respostaLogin.status = StatusPeloPin
       /\ respostaLogin.success = (respostaLogin.status = 200)

\* C17 amended: as above for a body that is JSON and not null; a body that
\* is not JSON or is null is answered 500
C17_StatusDoLogin ==
    respostaLogin # pendente
    => /\ respostaLogin.status =
              IF corpo \in {CorpoInvalido, null} THEN 500 ELSE StatusPeloPin
       /\ respostaLogin.success = (respostaLogin.status = 200)
       /\ respostaLogin.success
              <=> (/\ QuatroDigitos(PinDeclarado)
                   /\ PinAuthConfigurado
                   /\ PinDeclarado = pinAuth)

\* C17 witness: a login that succeeded
C17_Testemunha ==
    /\ respostaLogin # pendente
    /\ respostaLogin.status = 200
    /\ corpo = Objeto(pinAuth)

RegistrosLivres(match) ==
    \A k \in 1..Len(encontrados) :
        /\ encontrados[k].extrato # match.extrato
        /\ encontrados[k].relatorio # match.relatorio

\* C19: each step of the walk over the sorted list accepts its candidate
\* exactly when neither of its records is in an entry of encontrados; an
\* accepted candidate is appended as one entry and both its keys are marked,
\* a rejected one leaves encontrados and the claimed sets as they were
C19_AceitaSeLivres ==
    [][(pc = "aplicar" /\ indice' = indice + 1) =>
          LET match == todosMatchesPossiveis[indice]
              n == Len(encontrados)
          IN  IF RegistrosLivres(match)
              THEN /\ Len(encontrados') = n + 1
                   /\ SubSeq(encontrados', 1, n) = encontrados
                   /\ encontrados'[n + 1].extrato = match.extrato
                   /\ encontrados'[n + 1].relatorio = match.relatorio
                   /\ extratoUsados' = extratoUsados \cup {Chave(match.extrato)}
                   /\ relatorioUsados' = relatorioUsados \cup {Chave(match.relatorio)}
              ELSE UNCHANGED <<encontrados, extratoUsados, relatorioUsados>>]_vars

\* C19 witness: the walk has accepted two candidates and rejected another
C19_Testemunha ==
    /\ variante = "exaustiva"
    /\ pc \in {"aplicar", "relatorio"}
    /\ Len(encontrados) >= 2
    /\ indice - 1 > Len(encontrados)

\* The score of a report record and a statement record of the same amount
ScoreDoPar(pagRelatorio, pagExtrato) == MatchPossivel(pagRelatorio, pagExtrato).score

ScoreDaEntrada(entrada) == Score(entrada.dataMatch, entrada.palavrasComuns)

\* The same-amount pairs of the two input lists, as positions
ParesDeMesmoValor ==
    {par \in (1..Len(pagamentosRelatorio)) \X (1..Len(pagamentosExtrato)) :
        pagamentosRelatorio[par[1]].valor = pagamentosExtrato[par[2]].valor}

Juntos(pagRelatorio, pagExtrato) ==
    \E k \in 1..Len(encontrados) :
        encontrados[k].relatorio = pagRelatorio /\ encontrados[k].extrato = pagExtrato

\* C20: when the exhaustive variant has returned, a same-amount pair of the
\* highest score is in encontrados, and every same-amount pair that is not
\* matched together has its report record or its statement record matched
\* with a score at least as high as the score of the pair
C20_SemParBloqueante ==
    (Terminou /\ variante = "exaustiva") =>
        /\ ParesDeMesmoValor # {} =>
               \E par \in ParesDeMesmoValor :
                   /\ Juntos(pagamentosRelatorio[par[1]], pagamentosExtrato[par[2]])
                   /\ \A outro \in ParesDeMesmoValor :
                          ScoreDoPar(pagamentosRelatorio[outro[1]], pagamentosExtrato[outro[2]])
                              <= ScoreDoPar(pagamentosRelatorio[par[1]], pagamentosExtrato[par[2]])
        /\ \A par \in ParesDeMesmoValor :
               LET pagRelatorio == pagamentosRelatorio[par[1]]
                   pagExtrato == pagamentosExtrato[par[2]]
               IN  \/ Juntos(pagRelatorio, pagExtrato)
                   \/ \E k \in 1..Len(encontrados) :
                          /\ \/ encontrados[k].relatorio = pagRelatorio
                             \/ encontrados[k].extrato = pagExtrato
                          /\ ScoreDaEntrada(encontrados[k]) >= ScoreDoPar(pagRelatorio, pagExtrato)

\* C20 witness: lists in reverse row order, where the pair of the first
\* report record with the first statement record scores above zero and the
\* two are matched, each to another record
C20_Testemunha ==
    /\ Terminou
    /\ variante = "exaustiva"
    /\ Len(pagamentosRelatorio) >= 2
    /\ pagamentosRelatorio[1].linhaOriginal > pagamentosRelatorio[2].linhaOriginal
    /\ <<1, 1>> \in ParesDeMesmoValor
    /\ ScoreDoPar(pagamentosRelatorio[1], pagamentosExtrato[1]) > 0
    /\ ~Juntos(pagamentosRelatorio[1], pagamentosExtrato[1])
    /\ \E k \in 1..Len(encontrados) : encontrados[k].relatorio = pagamentosRelatorio[1]
    /\ \E k \in 1..Len(encontrados) : encontrados[k].extrato = pagamentosExtrato[1]

\* Whether a comes no later than b by score descending, then by the row of
\* the report record ascending
NaoDepois(scoreA, linhaA, scoreB, linhaB) ==
    scoreA > scoreB \/ (scoreA = scoreB /\ linhaA <= linhaB)

\* C21: the candidate list is walked by score descending and, among equal
\* scores, by the row of the report record ascending; the entries of
\* encontrados are in that order; and when two report records have the same
\* score with the only statement record of their amount, the one of the
\* higher row is not the one matched
C21_OrdemDosCandidatos ==
    (variante = "exaustiva" /\ pc \in {"aplicar", "relatorio", "extrato", "fim"}) =>
        /\ \A i, j \in 1..Len(todosMatchesPossiveis) :
               i < j => NaoDepois(todosMatchesPossiveis[i].score,
                                  todosMatchesPossiveis[i].relatorio.linhaOriginal,
                                  todosMatchesPossiveis[j].score,
                                  todosMatchesPossiveis[j].relatorio.linhaOriginal)
        /\ \A k, l \in 1..Len(encontrados) :
               k < l => NaoDepois(ScoreDaEntrada(encontrados[k]),
                                  encontrados[k].relatorio.linhaOriginal,
                                  ScoreDaEntrada(encontrados[l]),
                                  encontrados[l].relatorio.linhaOriginal)
        /\ pc = "fim" =>
               \A par \in ParesDeMesmoValor, outro \in ParesDeMesmoValor :
                   LET pagExtrato == pagamentosExtrato[par[2]]
                       alta == pagamentosRelatorio[par[1]]
                       baixa == pagamentosRelatorio[outro[1]]
                   IN  (/\ outro[2] = par[2]
                        /\ \A p \in ParesDeMesmoValor : p[1] = par[1] => p[2] = par[2]
                        /\ baixa.linhaOriginal < alta.linhaOriginal
                        /\ ScoreDoPar(baixa, pagExtrato) = ScoreDoPar(alta, pagExtrato))
                       => ~Juntos(alta, pagExtrato)

\* C21 witness: the report list is handed over with the higher row first,
\* its two records have the same score with the only statement record, and
\* the record of the lower row is the one matched
C21_Testemunha ==
    /\ variante = "exaustiva"
    /\ pc = "fim"
    /\ Len(pagamentosExtrato) = 1
    /\ Len(pagamentosRelatorio) = 2
    /\ pagamentosRelatorio[1].linhaOriginal > pagamentosRelatorio[2].linhaOriginal
    /\ <<1, 1>> \in ParesDeMesmoValor
    /\ <<2, 1>> \in ParesDeMesmoValor
    /\ ScoreDoPar(pagamentosRelatorio[1], pagamentosExtrato[1])
           = ScoreDoPar(pagamentosRelatorio[2], pagamentosExtrato[1])
    /\ Juntos(pagamentosRelatorio[2], pagamentosExtrato[1])

\* C22: in both variants and at every moment of a run, the two records of
\* an entry of encontrados have the same valor
C22_MesmoValor ==
    \A k \in 1..Len(encontrados) :
        encontrados[k].extrato.valor = encontrados[k].relatorio.valor

\* C22 witness: the simple variant has returned matches and has left
\* unmatched a report record and a statement record of the same date whose
\* amounts differ
C22_Testemunha ==
    /\ Terminou
    /\ variante = "simples"
    /\ Len(encontrados) >= 1
    /\ \E u \in 1..Len(naoEncontradosNoExtrato), v \in 1..Len(naoEncontradosNoRelatorio) :
           /\ naoEncontradosNoExtrato[u].valor # naoEncontradosNoRelatorio[v].valor
           /\ compararDatas(naoEncontradosNoExtrato[u].data,
                            naoEncontradosNoRelatorio[v].data)

\* Whether a cell is absent or does not normalize to a date
SemData(celula) == normalizarData(celula) = null

\* C23: compararDatas is true exactly when both values normalize to a date
\* and the two have the same year, month and day, whatever their hours; it
\* is false when either value is absent or does not parse
C23_MesmoDiaDoCalendario ==
    iguais # pendente =>
        /\ iguais.valor = (/\ ~SemData(dataA)
                           /\ ~SemData(dataB)
                           /\ normalizarData(dataA).ano = normalizarData(dataB).ano
                           /\ normalizarData(dataA).mes = normalizarData(dataB).mes
                           /\ normalizarData(dataA).dia = normalizarData(dataB).dia)
        /\ (SemData(dataA) \/ SemData(dataB)) => iguais = Booleano(FALSE)

\* C23 witness: a Date object at 13 hours and a text of the same day compare
\* as equal
C23_Testemunha ==
    /\ iguais = Booleano(TRUE)
    /\ dataA = DataComHora(2024, 0, 5, 13)
    /\ dataB.tipo = "texto"

\* The tokens of a description: accents stripped, lower case, split at
\* white space, empty pieces dropped
Tokens(descricao) ==
    LET NaoVazia(pedaco) == pedaco # <<>>
    IN  SelectSeq(Split(toLowerCase(removerAcentos(descricao)), Espacos), NaoVazia)

\* The token occurrences of d1 whose token occurs in d2
Ocorrencias(d1, d2) ==
    Cardinality({i \in 1..Len(Tokens(d1)) :
                    \E j \in 1..Len(Tokens(d2)) : Tokens(d2)[j] = Tokens(d1)[i]})

\* C24: contarPalavrasComuns(d1, d2) is the number of token occurrences of
\* d1 whose token occurs in d2; it is 0 when either description is empty,
\* and "Pagamento João Silva" against "joão silva pagamento" gives 3
C24_OcorrenciasComuns ==
    comuns # -1 =>
        /\ comuns = Ocorrencias(descricaoA, descricaoB)
        /\ (descricaoA = <<>> \/ descricaoB = <<>>) => comuns = 0
        /\ (descricaoA = PagamentoJoaoSilva /\ descricaoB = JoaoSilvaPagamento)
               => comuns = 3

\* C24 witness: a word written twice in the first description counts twice,
\* and the count with the arguments exchanged is lower
C24_Testemunha ==
    /\ comuns = 2
    /\ Len(Tokens(descricaoB)) = 1
    /\ Ocorrencias(descricaoB, descricaoA) = 1

\* The near-miss list `proximos` of an unmatched record of amount `valor`
\* names only amounts of `outrosValores` that differ from it by more than 0
\* and at most 1%, nearest first, and has at most 5 entries
ListaDeProximos(proximos, valor, outrosValores) ==
    /\ Len(proximos) <= 5
    /\ \A k \in 1..Len(proximos) :
           /\ proximos[k].valor \in outrosValores
           /\ proximos[k].diferenca > 0
           /\ 100 * proximos[k].diferenca <= valor
           /\ proximos[k].diferenca \in {proximos[k].valor - valor,
                                         valor - proximos[k].valor}
    /\ \A k \in 1..(Len(proximos) - 1) :
           proximos[k].diferenca <= proximos[k + 1].diferenca

\* C25: when the exhaustive cruzarPagamentos has returned,
\* debug.valoresProximos of every unmatched record holds at most 5 amounts
\* of the other side, each differing from the record's amount by more than
\* 0 and at most 1%, in ascending order of absolute difference
C25_ValoresProximos ==
    (pc = "fim" /\ variante = "exaustiva") =>
        /\ \A k \in 1..Len(naoEncontradosNoExtrato) :
               LET e == naoEncontradosNoExtrato[k]
               IN  e.motivo = "valor_nao_encontrado" =>
                       ListaDeProximos(e.debug.valoresProximos, e.valor,
                                       ValoresDe(pagamentosExtrato))
        /\ \A k \in 1..Len(naoEncontradosNoRelatorio) :
               LET e == naoEncontradosNoRelatorio[k]
               IN  ListaDeProximos(e.debug.valoresProximos, e.valor,
                                   ValoresDe(pagamentosRelatorio))

\* How many records of `pagamentos` have the amount `valor`
QuantosDe(pagamentos, valor) ==
    Cardinality({i \in 1..Len(pagamentos) : pagamentos[i].valor = valor})

Minimo(a, b) == IF a <= b THEN a ELSE b

RECURSIVE SomaDosMinimos(_)
\* The sum, over the amounts of `valores`, of the lesser of the number of
\* statement records and the number of report records with that amount
SomaDosMinimos(valores) ==
    IF valores = {} THEN 0
    ELSE LET v == CHOOSE x \in valores : TRUE
         IN  Minimo(QuantosDe(pagamentosExtrato, v), QuantosDe(pagamentosRelatorio, v))
                 + SomaDosMinimos(valores \ {v})

\* C26: when the exhaustive cruzarPagamentos returns, no unmatched report
\* record has the amount of a statement record that is still unclaimed,
\* every candidate listed under the motivo "all same-value candidates
\* already used" was indeed used, and the number of matches is the sum,
\* over the amounts, of the lesser of the two counts of records
C26_CasamentoMaximal ==
    (pc = "fim" /\ variante = "exaustiva") =>
        /\ \A k \in 1..Len(naoEncontradosNoExtrato), j \in 1..Len(pagamentosExtrato) :
               pagamentosExtrato[j].valor = naoEncontradosNoExtrato[k].valor
                   => Chave(pagamentosExtrato[j]) \in extratoUsados
        /\ \A k \in 1..Len(naoEncontradosNoExtrato) :
               LET e == naoEncontradosNoExtrato[k]
               IN  e.motivo = "candidatos_ja_usados" =>
                       /\ e.debug.candidatosEncontrados > 0
                       /\ \A c \in 1..Len(e.debug.candidatos) :
                              e.debug.candidatos[c].jaFoiUsado
        /\ Len(encontrados)
               = SomaDosMinimos(ValoresDe(pagamentosExtrato)
                                    \cup ValoresDe(pagamentosRelatorio))

\* C26 witness: a finished exhaustive run with two matches that left a
\* report record unmatched because every statement record of its amount
\* was used, one of them sharing no word and no date with it
C26_Testemunha ==
    /\ pc = "fim"
    /\ variante = "exaustiva"
    /\ Len(encontrados) >= 2
    /\ \E k \in 1..Len(naoEncontradosNoExtrato) :
           LET e == naoEncontradosNoExtrato[k]
           IN  /\ e.motivo = "candidatos_ja_usados"
               /\ \E c \in 1..Len(e.debug.candidatos) :
                      /\ e.debug.candidatos[c].palavrasComuns = 0
                      /\ ~e.debug.candidatos[c].dataMatch

\* The summary of the exhaustive variant says 'totalmente_conciliado'
TotalmenteConciliado ==
    /\ pc = "relatado"
    /\ variante = "exaustiva"
    /\ resumo.status = "totalmente_conciliado"

\* C27 as stated: when realizarConciliacao reports the status
\* 'totalmente_conciliado', every statement record and every report record
\* is part of a match: totalEncontrados = totalExtrato = totalRelatorio
C27_TudoCasado ==
    TotalmenteConciliado =>
        /\ resumo.totalEncontrados = resumo.totalExtrato
        /\ resumo.totalEncontrados = resumo.totalRelatorio

\* C27 amended: when realizarConciliacao reports the status
\* 'totalmente_conciliado', every report record and every statement record
\* whose description is not blank is part of a match: totalEncontrados =
\* totalRelatorio, and totalExtrato exceeds totalEncontrados by the number
\* of unmatched statement records with a blank description
C27_TudoCasadoSalvoEmBranco ==
    TotalmenteConciliado =>
        /\ resumo.totalEncontrados = resumo.totalRelatorio
        /\ resumo.totalExtrato
               = resumo.totalEncontrados + Cardinality(ExtratosOmitidos)
        /\ \A i \in 1..Len(pagamentosRelatorio) :
               Vezes(RelatoriosCasados, pagamentosRelatorio[i]) = 1
        /\ \A i \in 1..Len(pagamentosExtrato) :
               ~EmBranco(pagamentosExtrato[i].descricao)
                   => Vezes(ExtratosCasados, pagamentosExtrato[i]) = 1

\* C27 witness: a summary 'totalmente_conciliado' of a run with a match
\* and a statement record with a blank description that is in no match
C27_Testemunha ==
    /\ TotalmenteConciliado
    /\ resumo.totalEncontrados >= 1
    /\ resumo.totalExtrato > resumo.totalEncontrados
    /\ ExtratosOmitidos # {}

\* The matches of encontrados whose report record has the amount `valor`
CasadosDe(valor) ==
    Cardinality({k \in 1..Len(encontrados) : encontrados[k].relatorio.valor = valor})

\* The entries of naoEncontradosNoExtrato of the amount `valor`
SobrandoDe(valor) ==
    Cardinality({k \in 1..Len(naoEncontradosNoExtrato) :
                    naoEncontradosNoExtrato[k].valor = valor})

\* C28: the simple variant and the exhaustive variant reconcile as much as
\* each other: whichever variant ran, the number of matches of every amount
\* is the lesser of the numbers of statement and report records of that
\* amount, and the unmatched report records of that amount are the rest,
\* numbers that depend on the input lists only
C28_VariantesConcordam ==
    Terminou =>
        \A v \in ValoresDe(pagamentosExtrato) \cup ValoresDe(pagamentosRelatorio) :
            /\ CasadosDe(v) = Minimo(QuantosDe(pagamentosExtrato, v),
                                     QuantosDe(pagamentosRelatorio, v))
            /\ SobrandoDe(v) = QuantosDe(pagamentosRelatorio, v) - CasadosDe(v)

\* C28 witness: a finished run of the simple variant with a match on the
\* amount alone, a match on a shared word and an unmatched report record
\* of the same amount
C28_Testemunha ==
    /\ Terminou
    /\ variante = "simples"
    /\ \E i, j \in 1..Len(encontrados) :
           /\ encontrados[i].metodo = "valor_apenas"
           /\ encontrados[j].metodo = "valor_descricao"
           /\ encontrados[i].relatorio.valor = encontrados[j].relatorio.valor
           /\ SobrandoDe(encontrados[i].relatorio.valor) > 0

\* The request whose step this is
Agiu(r) == pedidos'[r] # pedidos[r]

\* The temporary files a request has written and still has to delete on
\* its way to the answer 200
CaminhosEmUso(p) ==
    CASE p.pc = "excluir" -> {p.caminhos[1]}
      [] p.pc \in {"instrucoesExtrato", "instrucoesRelatorio", "excluirExtrato"} ->
             {p.caminhos[1], p.caminhos[2]}
      [] p.pc = "excluirRelatorio" -> {p.caminhos[2]}
      [] OTHER -> {}

\* C29: requests in flight do not interfere through their temporary files:
\* a file leaves the temporary directory, or is replaced, only by a step of
\* the request that wrote it, and a file that a request wrote and still
\* needs is there, as that request wrote it, whatever the other requests do
C29_TemporariosSeparados ==
    /\ [][\A f \in tmp : f \notin tmp' => Agiu(f.dono)]_vars
    /\ [](\A r \in DOMAIN pedidos :
             \A c \in CaminhosEmUso(pedidos[r]) :
                 [caminho |-> c, dono |-> r] \in tmp)

=============================================================================
